---------------------------- MODULE Spec2Model ----------------------------
(***************************************************************************)
(* ezbook-convert: the rule store (config), the categorization engine,     *)
(* the redaction engine (anonymizer), the novelty detector and the         *)
(* convert command, as a state machine.                                    *)
(*                                                                         *)
(* The strings of the program's data (partner names, transaction type      *)
(* labels, keywords, exact matches, owner names, dates, amounts, category  *)
(* names, subcategories, account names, the fields of the output file)     *)
(* are sequences of runes; a rune is its Unicode code point, a number in   *)
(* 0..MaxRune outside the surrogates (the strings are valid UTF-8).  A     *)
(* literal is written Runes(<<"A", "l", "d", "i">>), with a name for each  *)
(* rune: the ASCII character itself, or the letter followed by the mark it *)
(* carries (' acute, : diaeresis, " double acute, ? tilde, < caron; ss is  *)
(* the sharp s); a rune without a name is written as its code point; a     *)
(* literal of ASCII characters is also written Ascii("Aldi").  The kinds   *)
(* of errors, the detection types and the names of the operations are      *)
(* TLA+ strings.                                                           *)
(***************************************************************************)
EXTENDS Integers, Sequences, FiniteSets, TLC

VARIABLES cfg, last, pc, loaded, calls, par

vars == <<cfg, last, pc, loaded, calls, par>>

---------------------------------------------------------------------------
(* The notation of rune literals.                                          *)

\* The names of the runes, each with its code point
RuneOf ==
  (" " :> 32) @@ ("!" :> 33) @@ ("\"" :> 34) @@ ("#" :> 35) @@
  ("$" :> 36) @@ ("%" :> 37) @@ ("&" :> 38) @@ ("'" :> 39) @@
  ("(" :> 40) @@ (")" :> 41) @@ ("*" :> 42) @@ ("+" :> 43) @@
  ("," :> 44) @@ ("-" :> 45) @@ ("." :> 46) @@ ("/" :> 47) @@
  ("0" :> 48) @@ ("1" :> 49) @@ ("2" :> 50) @@ ("3" :> 51) @@
  ("4" :> 52) @@ ("5" :> 53) @@ ("6" :> 54) @@ ("7" :> 55) @@
  ("8" :> 56) @@ ("9" :> 57) @@ (":" :> 58) @@ (";" :> 59) @@
  ("<" :> 60) @@ ("=" :> 61) @@ (">" :> 62) @@ ("?" :> 63) @@
  ("@" :> 64) @@ ("A" :> 65) @@ ("B" :> 66) @@ ("C" :> 67) @@
  ("D" :> 68) @@ ("E" :> 69) @@ ("F" :> 70) @@ ("G" :> 71) @@
  ("H" :> 72) @@ ("I" :> 73) @@ ("J" :> 74) @@ ("K" :> 75) @@
  ("L" :> 76) @@ ("M" :> 77) @@ ("N" :> 78) @@ ("O" :> 79) @@
  ("P" :> 80) @@ ("Q" :> 81) @@ ("R" :> 82) @@ ("S" :> 83) @@
  ("T" :> 84) @@ ("U" :> 85) @@ ("V" :> 86) @@ ("W" :> 87) @@
  ("X" :> 88) @@ ("Y" :> 89) @@ ("Z" :> 90) @@ ("[" :> 91) @@
  ("\\" :> 92) @@ ("]" :> 93) @@ ("^" :> 94) @@ ("_" :> 95) @@
  ("a" :> 97) @@ ("b" :> 98) @@ ("c" :> 99) @@ ("d" :> 100) @@
  ("e" :> 101) @@ ("f" :> 102) @@ ("g" :> 103) @@ ("h" :> 104) @@
  ("i" :> 105) @@ ("j" :> 106) @@ ("k" :> 107) @@ ("l" :> 108) @@
  ("m" :> 109) @@ ("n" :> 110) @@ ("o" :> 111) @@ ("p" :> 112) @@
  ("q" :> 113) @@ ("r" :> 114) @@ ("s" :> 115) @@ ("t" :> 116) @@
  ("u" :> 117) @@ ("v" :> 118) @@ ("w" :> 119) @@ ("x" :> 120) @@
  ("y" :> 121) @@ ("z" :> 122) @@ ("{" :> 123) @@ ("|" :> 124) @@
  ("}" :> 125) @@ ("~" :> 126) @@ ("\t" :> 9) @@ ("\n" :> 10) @@
  ("\f" :> 12) @@ ("\r" :> 13) @@ ("A'" :> 193) @@ ("E'" :> 201) @@
  ("I'" :> 205) @@ ("O'" :> 211) @@ ("U'" :> 218) @@ ("Y'" :> 221) @@
  ("A:" :> 196) @@ ("E:" :> 203) @@ ("I:" :> 207) @@ ("O:" :> 214) @@
  ("U:" :> 220) @@ ("Y:" :> 376) @@ ("O\"" :> 336) @@ ("U\"" :> 368) @@
  ("a'" :> 225) @@ ("e'" :> 233) @@ ("i'" :> 237) @@ ("o'" :> 243) @@
  ("u'" :> 250) @@ ("y'" :> 253) @@ ("a:" :> 228) @@ ("e:" :> 235) @@
  ("i:" :> 239) @@ ("o:" :> 246) @@ ("u:" :> 252) @@ ("y:" :> 255) @@
  ("o\"" :> 337) @@ ("u\"" :> 369) @@ ("N?" :> 209) @@ ("n?" :> 241) @@
  ("S<" :> 352) @@ ("s<" :> 353) @@ ("ss" :> 223)

\* The rune named c
Rune(c) == RuneOf[c]

\* The string of the runes named
Runes(names) == <<>> \o [i \in 1..Len(names) |-> Rune(names[i])]

\* The runes of a string of ASCII characters
Ascii(s) == <<>> \o [i \in 1..Len(s) |-> Rune(SubSeq(s, i, i))]

\* The category names, subcategories, types and literals of the code
C_Miscellaneous == Ascii("Miscellaneous")
C_OtherIncome == Ascii("Other Income")
C_FinanceInsurance == Ascii("Finance & Insurance")
C_InterestExpense == Ascii("Interest Expense")
C_ServiceCharge == Ascii("Service Charge")
C_GeneralTransfer == Ascii("General Transfer")
C_DepositsWithdrawals == Ascii("Deposits & Withdrawals")
C_Uncategorized == Ascii("Uncategorized")
C_Income == Ascii("Income")
C_Expense == Ascii("Expense")
C_OtherExpense == Ascii("Other Expense")
C_Transportation == Ascii("Transportation")
C_FoodDrink == Ascii("Food & Drink")
C_Food == Ascii("Food")
C_PublicTransit == Ascii("Public Transit")
C_Shopping == Ascii("Shopping")
C_MedicalHealthcare == Ascii("Medical & Healthcare")
C_HUF == Ascii("HUF")
C_Timezone == Ascii("+01:00")

---------------------------------------------------------------------------
(* Go's unicode and strings packages, on rune sequences.                   *)

MaxRune == \h10FFFF
MaxASCII == \h7F

\* len(s): the bytes of s in UTF-8, a rune taking one byte and one more
\* from each of U+0080, U+0800 and U+10000 on (utf8.RuneLen)
ByteLen(s) ==
  Len(s) + Cardinality({ i \in 1..Len(s) : s[i] >= \h80 })
         + Cardinality({ i \in 1..Len(s) : s[i] >= \h800 })
         + Cardinality({ i \in 1..Len(s) : s[i] >= \h10000 })

\* Indices into a CaseRange's deltas, and the delta of an alternating range
UpperCase == 0
LowerCase == 1
UpperLower == MaxRune + 1

\* unicode.CaseRanges: <<Lo, Hi, d[UpperCase],
\* d[LowerCase]>> for the runes Lo..Hi, in increasing order; the delta is
\* added to a rune to change its case, and in a range of delta UpperLower
\* the runes are alternately upper and lower case, Lo upper.  (The delta
\* to title case is left out: no code here asks for it.)
CaseRanges ==
  <<
    <<\h0041, \h005A, 0, 32>>, <<\h0061, \h007A, -32, 0>>,
    <<\h00B5, \h00B5, 743, 0>>, <<\h00C0, \h00D6, 0, 32>>,
    <<\h00D8, \h00DE, 0, 32>>, <<\h00E0, \h00F6, -32, 0>>,
    <<\h00F8, \h00FE, -32, 0>>, <<\h00FF, \h00FF, 121, 0>>,
    <<\h0100, \h012F, UpperLower, UpperLower>>, <<\h0130, \h0130, 0, -199>>,
    <<\h0131, \h0131, -232, 0>>, <<\h0132, \h0137, UpperLower, UpperLower>>,
    <<\h0139, \h0148, UpperLower, UpperLower>>, <<\h014A, \h0177, UpperLower, UpperLower>>,
    <<\h0178, \h0178, 0, -121>>, <<\h0179, \h017E, UpperLower, UpperLower>>,
    <<\h017F, \h017F, -300, 0>>, <<\h0180, \h0180, 195, 0>>,
    <<\h0181, \h0181, 0, 210>>, <<\h0182, \h0185, UpperLower, UpperLower>>,
    <<\h0186, \h0186, 0, 206>>, <<\h0187, \h0187, 0, 1>>,
    <<\h0188, \h0188, -1, 0>>, <<\h0189, \h018A, 0, 205>>,
    <<\h018B, \h018B, 0, 1>>, <<\h018C, \h018C, -1, 0>>,
    <<\h018E, \h018E, 0, 79>>, <<\h018F, \h018F, 0, 202>>,
    <<\h0190, \h0190, 0, 203>>, <<\h0191, \h0191, 0, 1>>,
    <<\h0192, \h0192, -1, 0>>, <<\h0193, \h0193, 0, 205>>,
    <<\h0194, \h0194, 0, 207>>, <<\h0195, \h0195, 97, 0>>,
    <<\h0196, \h0196, 0, 211>>, <<\h0197, \h0197, 0, 209>>,
    <<\h0198, \h0198, 0, 1>>, <<\h0199, \h0199, -1, 0>>,
    <<\h019A, \h019A, 163, 0>>, <<\h019C, \h019C, 0, 211>>,
    <<\h019D, \h019D, 0, 213>>, <<\h019E, \h019E, 130, 0>>,
    <<\h019F, \h019F, 0, 214>>, <<\h01A0, \h01A5, UpperLower, UpperLower>>,
    <<\h01A6, \h01A6, 0, 218>>, <<\h01A7, \h01A7, 0, 1>>,
    <<\h01A8, \h01A8, -1, 0>>, <<\h01A9, \h01A9, 0, 218>>,
    <<\h01AC, \h01AC, 0, 1>>, <<\h01AD, \h01AD, -1, 0>>,
    <<\h01AE, \h01AE, 0, 218>>, <<\h01AF, \h01AF, 0, 1>>,
    <<\h01B0, \h01B0, -1, 0>>, <<\h01B1, \h01B2, 0, 217>>,
    <<\h01B3, \h01B6, UpperLower, UpperLower>>, <<\h01B7, \h01B7, 0, 219>>,
    <<\h01B8, \h01B8, 0, 1>>, <<\h01B9, \h01B9, -1, 0>>,
    <<\h01BC, \h01BC, 0, 1>>, <<\h01BD, \h01BD, -1, 0>>,
    <<\h01BF, \h01BF, 56, 0>>, <<\h01C4, \h01C4, 0, 2>>,
    <<\h01C5, \h01C5, -1, 1>>, <<\h01C6, \h01C6, -2, 0>>,
    <<\h01C7, \h01C7, 0, 2>>, <<\h01C8, \h01C8, -1, 1>>,
    <<\h01C9, \h01C9, -2, 0>>, <<\h01CA, \h01CA, 0, 2>>,
    <<\h01CB, \h01CB, -1, 1>>, <<\h01CC, \h01CC, -2, 0>>,
    <<\h01CD, \h01DC, UpperLower, UpperLower>>, <<\h01DD, \h01DD, -79, 0>>,
    <<\h01DE, \h01EF, UpperLower, UpperLower>>, <<\h01F1, \h01F1, 0, 2>>,
    <<\h01F2, \h01F2, -1, 1>>, <<\h01F3, \h01F3, -2, 0>>,
    <<\h01F4, \h01F4, 0, 1>>, <<\h01F5, \h01F5, -1, 0>>,
    <<\h01F6, \h01F6, 0, -97>>, <<\h01F7, \h01F7, 0, -56>>,
    <<\h01F8, \h021F, UpperLower, UpperLower>>, <<\h0220, \h0220, 0, -130>>,
    <<\h0222, \h0233, UpperLower, UpperLower>>, <<\h023A, \h023A, 0, 10795>>,
    <<\h023B, \h023B, 0, 1>>, <<\h023C, \h023C, -1, 0>>,
    <<\h023D, \h023D, 0, -163>>, <<\h023E, \h023E, 0, 10792>>,
    <<\h023F, \h0240, 10815, 0>>, <<\h0241, \h0241, 0, 1>>,
    <<\h0242, \h0242, -1, 0>>, <<\h0243, \h0243, 0, -195>>,
    <<\h0244, \h0244, 0, 69>>, <<\h0245, \h0245, 0, 71>>,
    <<\h0246, \h024F, UpperLower, UpperLower>>, <<\h0250, \h0250, 10783, 0>>,
    <<\h0251, \h0251, 10780, 0>>, <<\h0252, \h0252, 10782, 0>>,
    <<\h0253, \h0253, -210, 0>>, <<\h0254, \h0254, -206, 0>>,
    <<\h0256, \h0257, -205, 0>>, <<\h0259, \h0259, -202, 0>>,
    <<\h025B, \h025B, -203, 0>>, <<\h025C, \h025C, 42319, 0>>,
    <<\h0260, \h0260, -205, 0>>, <<\h0261, \h0261, 42315, 0>>,
    <<\h0263, \h0263, -207, 0>>, <<\h0265, \h0265, 42280, 0>>,
    <<\h0266, \h0266, 42308, 0>>, <<\h0268, \h0268, -209, 0>>,
    <<\h0269, \h0269, -211, 0>>, <<\h026A, \h026A, 42308, 0>>,
    <<\h026B, \h026B, 10743, 0>>, <<\h026C, \h026C, 42305, 0>>,
    <<\h026F, \h026F, -211, 0>>, <<\h0271, \h0271, 10749, 0>>,
    <<\h0272, \h0272, -213, 0>>, <<\h0275, \h0275, -214, 0>>,
    <<\h027D, \h027D, 10727, 0>>, <<\h0280, \h0280, -218, 0>>,
    <<\h0282, \h0282, 42307, 0>>, <<\h0283, \h0283, -218, 0>>,
    <<\h0287, \h0287, 42282, 0>>, <<\h0288, \h0288, -218, 0>>,
    <<\h0289, \h0289, -69, 0>>, <<\h028A, \h028B, -217, 0>>,
    <<\h028C, \h028C, -71, 0>>, <<\h0292, \h0292, -219, 0>>,
    <<\h029D, \h029D, 42261, 0>>, <<\h029E, \h029E, 42258, 0>>,
    <<\h0345, \h0345, 84, 0>>, <<\h0370, \h0373, UpperLower, UpperLower>>,
    <<\h0376, \h0376, 0, 1>>, <<\h0377, \h0377, -1, 0>>,
    <<\h037B, \h037D, 130, 0>>, <<\h037F, \h037F, 0, 116>>,
    <<\h0386, \h0386, 0, 38>>, <<\h0388, \h038A, 0, 37>>,
    <<\h038C, \h038C, 0, 64>>, <<\h038E, \h038F, 0, 63>>,
    <<\h0391, \h03A1, 0, 32>>, <<\h03A3, \h03AB, 0, 32>>,
    <<\h03AC, \h03AC, -38, 0>>, <<\h03AD, \h03AF, -37, 0>>,
    <<\h03B1, \h03C1, -32, 0>>, <<\h03C2, \h03C2, -31, 0>>,
    <<\h03C3, \h03CB, -32, 0>>, <<\h03CC, \h03CC, -64, 0>>,
    <<\h03CD, \h03CE, -63, 0>>, <<\h03CF, \h03CF, 0, 8>>,
    <<\h03D0, \h03D0, -62, 0>>, <<\h03D1, \h03D1, -57, 0>>,
    <<\h03D5, \h03D5, -47, 0>>, <<\h03D6, \h03D6, -54, 0>>,
    <<\h03D7, \h03D7, -8, 0>>, <<\h03D8, \h03EF, UpperLower, UpperLower>>,
    <<\h03F0, \h03F0, -86, 0>>, <<\h03F1, \h03F1, -80, 0>>,
    <<\h03F2, \h03F2, 7, 0>>, <<\h03F3, \h03F3, -116, 0>>,
    <<\h03F4, \h03F4, 0, -60>>, <<\h03F5, \h03F5, -96, 0>>,
    <<\h03F7, \h03F7, 0, 1>>, <<\h03F8, \h03F8, -1, 0>>,
    <<\h03F9, \h03F9, 0, -7>>, <<\h03FA, \h03FA, 0, 1>>,
    <<\h03FB, \h03FB, -1, 0>>, <<\h03FD, \h03FF, 0, -130>>,
    <<\h0400, \h040F, 0, 80>>, <<\h0410, \h042F, 0, 32>>,
    <<\h0430, \h044F, -32, 0>>, <<\h0450, \h045F, -80, 0>>,
    <<\h0460, \h0481, UpperLower, UpperLower>>, <<\h048A, \h04BF, UpperLower, UpperLower>>,
    <<\h04C0, \h04C0, 0, 15>>, <<\h04C1, \h04CE, UpperLower, UpperLower>>,
    <<\h04CF, \h04CF, -15, 0>>, <<\h04D0, \h052F, UpperLower, UpperLower>>,
    <<\h0531, \h0556, 0, 48>>, <<\h0561, \h0586, -48, 0>>,
    <<\h10A0, \h10C5, 0, 7264>>, <<\h10C7, \h10C7, 0, 7264>>,
    <<\h10CD, \h10CD, 0, 7264>>, <<\h10D0, \h10FA, 3008, 0>>,
    <<\h10FD, \h10FF, 3008, 0>>, <<\h13A0, \h13EF, 0, 38864>>,
    <<\h13F0, \h13F5, 0, 8>>, <<\h13F8, \h13FD, -8, 0>>,
    <<\h1C80, \h1C80, -6254, 0>>, <<\h1C81, \h1C81, -6253, 0>>,
    <<\h1C82, \h1C82, -6244, 0>>, <<\h1C83, \h1C84, -6242, 0>>,
    <<\h1C85, \h1C85, -6243, 0>>, <<\h1C86, \h1C86, -6236, 0>>,
    <<\h1C87, \h1C87, -6181, 0>>, <<\h1C88, \h1C88, 35266, 0>>,
    <<\h1C90, \h1CBA, 0, -3008>>, <<\h1CBD, \h1CBF, 0, -3008>>,
    <<\h1D79, \h1D79, 35332, 0>>, <<\h1D7D, \h1D7D, 3814, 0>>,
    <<\h1D8E, \h1D8E, 35384, 0>>, <<\h1E00, \h1E95, UpperLower, UpperLower>>,
    <<\h1E9B, \h1E9B, -59, 0>>, <<\h1E9E, \h1E9E, 0, -7615>>,
    <<\h1EA0, \h1EFF, UpperLower, UpperLower>>, <<\h1F00, \h1F07, 8, 0>>,
    <<\h1F08, \h1F0F, 0, -8>>, <<\h1F10, \h1F15, 8, 0>>,
    <<\h1F18, \h1F1D, 0, -8>>, <<\h1F20, \h1F27, 8, 0>>,
    <<\h1F28, \h1F2F, 0, -8>>, <<\h1F30, \h1F37, 8, 0>>,
    <<\h1F38, \h1F3F, 0, -8>>, <<\h1F40, \h1F45, 8, 0>>,
    <<\h1F48, \h1F4D, 0, -8>>, <<\h1F51, \h1F51, 8, 0>>,
    <<\h1F53, \h1F53, 8, 0>>, <<\h1F55, \h1F55, 8, 0>>,
    <<\h1F57, \h1F57, 8, 0>>, <<\h1F59, \h1F59, 0, -8>>,
    <<\h1F5B, \h1F5B, 0, -8>>, <<\h1F5D, \h1F5D, 0, -8>>,
    <<\h1F5F, \h1F5F, 0, -8>>, <<\h1F60, \h1F67, 8, 0>>,
    <<\h1F68, \h1F6F, 0, -8>>, <<\h1F70, \h1F71, 74, 0>>,
    <<\h1F72, \h1F75, 86, 0>>, <<\h1F76, \h1F77, 100, 0>>,
    <<\h1F78, \h1F79, 128, 0>>, <<\h1F7A, \h1F7B, 112, 0>>,
    <<\h1F7C, \h1F7D, 126, 0>>, <<\h1F80, \h1F87, 8, 0>>,
    <<\h1F88, \h1F8F, 0, -8>>, <<\h1F90, \h1F97, 8, 0>>,
    <<\h1F98, \h1F9F, 0, -8>>, <<\h1FA0, \h1FA7, 8, 0>>,
    <<\h1FA8, \h1FAF, 0, -8>>, <<\h1FB0, \h1FB1, 8, 0>>,
    <<\h1FB3, \h1FB3, 9, 0>>, <<\h1FB8, \h1FB9, 0, -8>>,
    <<\h1FBA, \h1FBB, 0, -74>>, <<\h1FBC, \h1FBC, 0, -9>>,
    <<\h1FBE, \h1FBE, -7205, 0>>, <<\h1FC3, \h1FC3, 9, 0>>,
    <<\h1FC8, \h1FCB, 0, -86>>, <<\h1FCC, \h1FCC, 0, -9>>,
    <<\h1FD0, \h1FD1, 8, 0>>, <<\h1FD8, \h1FD9, 0, -8>>,
    <<\h1FDA, \h1FDB, 0, -100>>, <<\h1FE0, \h1FE1, 8, 0>>,
    <<\h1FE5, \h1FE5, 7, 0>>, <<\h1FE8, \h1FE9, 0, -8>>,
    <<\h1FEA, \h1FEB, 0, -112>>, <<\h1FEC, \h1FEC, 0, -7>>,
    <<\h1FF3, \h1FF3, 9, 0>>, <<\h1FF8, \h1FF9, 0, -128>>,
    <<\h1FFA, \h1FFB, 0, -126>>, <<\h1FFC, \h1FFC, 0, -9>>,
    <<\h2126, \h2126, 0, -7517>>, <<\h212A, \h212A, 0, -8383>>,
    <<\h212B, \h212B, 0, -8262>>, <<\h2132, \h2132, 0, 28>>,
    <<\h214E, \h214E, -28, 0>>, <<\h2160, \h216F, 0, 16>>,
    <<\h2170, \h217F, -16, 0>>, <<\h2183, \h2183, 0, 1>>,
    <<\h2184, \h2184, -1, 0>>, <<\h24B6, \h24CF, 0, 26>>,
    <<\h24D0, \h24E9, -26, 0>>, <<\h2C00, \h2C2F, 0, 48>>,
    <<\h2C30, \h2C5F, -48, 0>>, <<\h2C60, \h2C60, 0, 1>>,
    <<\h2C61, \h2C61, -1, 0>>, <<\h2C62, \h2C62, 0, -10743>>,
    <<\h2C63, \h2C63, 0, -3814>>, <<\h2C64, \h2C64, 0, -10727>>,
    <<\h2C65, \h2C65, -10795, 0>>, <<\h2C66, \h2C66, -10792, 0>>,
    <<\h2C67, \h2C6C, UpperLower, UpperLower>>, <<\h2C6D, \h2C6D, 0, -10780>>,
    <<\h2C6E, \h2C6E, 0, -10749>>, <<\h2C6F, \h2C6F, 0, -10783>>,
    <<\h2C70, \h2C70, 0, -10782>>, <<\h2C72, \h2C72, 0, 1>>,
    <<\h2C73, \h2C73, -1, 0>>, <<\h2C75, \h2C75, 0, 1>>,
    <<\h2C76, \h2C76, -1, 0>>, <<\h2C7E, \h2C7F, 0, -10815>>,
    <<\h2C80, \h2CE3, UpperLower, UpperLower>>, <<\h2CEB, \h2CEE, UpperLower, UpperLower>>,
    <<\h2CF2, \h2CF2, 0, 1>>, <<\h2CF3, \h2CF3, -1, 0>>,
    <<\h2D00, \h2D25, -7264, 0>>, <<\h2D27, \h2D27, -7264, 0>>,
    <<\h2D2D, \h2D2D, -7264, 0>>, <<\hA640, \hA66D, UpperLower, UpperLower>>,
    <<\hA680, \hA69B, UpperLower, UpperLower>>, <<\hA722, \hA72F, UpperLower, UpperLower>>,
    <<\hA732, \hA76F, UpperLower, UpperLower>>, <<\hA779, \hA77C, UpperLower, UpperLower>>,
    <<\hA77D, \hA77D, 0, -35332>>, <<\hA77E, \hA787, UpperLower, UpperLower>>,
    <<\hA78B, \hA78B, 0, 1>>, <<\hA78C, \hA78C, -1, 0>>,
    <<\hA78D, \hA78D, 0, -42280>>, <<\hA790, \hA793, UpperLower, UpperLower>>,
    <<\hA794, \hA794, 48, 0>>, <<\hA796, \hA7A9, UpperLower, UpperLower>>,
    <<\hA7AA, \hA7AA, 0, -42308>>, <<\hA7AB, \hA7AB, 0, -42319>>,
    <<\hA7AC, \hA7AC, 0, -42315>>, <<\hA7AD, \hA7AD, 0, -42305>>,
    <<\hA7AE, \hA7AE, 0, -42308>>, <<\hA7B0, \hA7B0, 0, -42258>>,
    <<\hA7B1, \hA7B1, 0, -42282>>, <<\hA7B2, \hA7B2, 0, -42261>>,
    <<\hA7B3, \hA7B3, 0, 928>>, <<\hA7B4, \hA7C3, UpperLower, UpperLower>>,
    <<\hA7C4, \hA7C4, 0, -48>>, <<\hA7C5, \hA7C5, 0, -42307>>,
    <<\hA7C6, \hA7C6, 0, -35384>>, <<\hA7C7, \hA7CA, UpperLower, UpperLower>>,
    <<\hA7D0, \hA7D0, 0, 1>>, <<\hA7D1, \hA7D1, -1, 0>>,
    <<\hA7D6, \hA7D9, UpperLower, UpperLower>>, <<\hA7F5, \hA7F5, 0, 1>>,
    <<\hA7F6, \hA7F6, -1, 0>>, <<\hAB53, \hAB53, -928, 0>>,
    <<\hAB70, \hABBF, -38864, 0>>, <<\hFF21, \hFF3A, 0, 32>>,
    <<\hFF41, \hFF5A, -32, 0>>, <<\h10400, \h10427, 0, 40>>,
    <<\h10428, \h1044F, -40, 0>>, <<\h104B0, \h104D3, 0, 40>>,
    <<\h104D8, \h104FB, -40, 0>>, <<\h10570, \h1057A, 0, 39>>,
    <<\h1057C, \h1058A, 0, 39>>, <<\h1058C, \h10592, 0, 39>>,
    <<\h10594, \h10595, 0, 39>>, <<\h10597, \h105A1, -39, 0>>,
    <<\h105A3, \h105B1, -39, 0>>, <<\h105B3, \h105B9, -39, 0>>,
    <<\h105BB, \h105BC, -39, 0>>, <<\h10C80, \h10CB2, 0, 64>>,
    <<\h10CC0, \h10CF2, -64, 0>>, <<\h118A0, \h118BF, 0, 32>>,
    <<\h118C0, \h118DF, -32, 0>>, <<\h16E40, \h16E5F, 0, 32>>,
    <<\h16E60, \h16E7F, -32, 0>>, <<\h1E900, \h1E921, 0, 34>>,
    <<\h1E922, \h1E943, -34, 0>>
  >>

\* unicode.to(_case, r, caseRange): binary search of the range of r among
\* CaseRanges[lo+1..hi]; toRange is the step on the middle range cr, of
\* index m.  A rune in no range is its own upper and lower case.
RECURSIVE to(_, _, _, _)
toRange(case_, r, lo, hi, m, cr) ==
  IF cr[1] <= r /\ r <= cr[2]
  THEN (IF cr[3 + case_] > MaxRune
        THEN cr[1] + 2 * ((r - cr[1]) \div 2) + case_
        ELSE r + cr[3 + case_])
  ELSE IF r < cr[1] THEN to(case_, r, lo, m)
  ELSE to(case_, r, m + 1, hi)

to(case_, r, lo, hi) ==
  IF lo >= hi THEN r
  ELSE toRange(case_, r, lo, hi, lo + ((hi - lo) \div 2),
               CaseRanges[lo + ((hi - lo) \div 2) + 1])

\* unicode.ToLower(r)
ToLowerRune(r) ==
  IF r <= MaxASCII
  THEN (IF Rune("A") <= r /\ r <= Rune("Z") THEN r + (Rune("a") - Rune("A")) ELSE r)
  ELSE to(LowerCase, r, 0, Len(CaseRanges))

\* unicode.ToUpper(r)
ToUpperRune(r) ==
  IF r <= MaxASCII
  THEN (IF Rune("a") <= r /\ r <= Rune("z") THEN r - (Rune("a") - Rune("A")) ELSE r)
  ELSE to(UpperCase, r, 0, Len(CaseRanges))

\* 'A'..'Z' and '0'..'9'
AsciiUpper == Rune("A")..Rune("Z")

AsciiDigits == Rune("0")..Rune("9")

\* The Kelvin sign, the long s, the capital sharp s, the dotted capital I
\* and the no-break space
KelvinSign == \h212A
LongS == \h017F
CapitalSharpS == \h1E9E
DottedI == \h0130
NBSP == \h00A0

\* unicode.IsSpace: the ASCII white space \t \n \v \f \r and the space,
\* U+0085 (NEL), U+00A0 (NBSP) and the space separators of category Z.
SpaceRunes ==
  {\h0009, \h000A, \h000B, \h000C, \h000D, \h0020, \h0085, \h00A0, \h1680,
   \h2000, \h2001, \h2002, \h2003, \h2004, \h2005, \h2006, \h2007, \h2008,
   \h2009, \h200A, \h2028, \h2029, \h202F, \h205F, \h3000}

\* strings.ToLower
ToLower(s) == <<>> \o [i \in 1..Len(s) |-> ToLowerRune(s[i])]

\* strings.Contains
Contains(s, substr) ==
  \E i \in 0..(Len(s) - Len(substr)) : SubSeq(s, i + 1, i + Len(substr)) = substr

\* strings.TrimSpace: s from its first to its last rune that is no space
RECURSIVE FirstNonSpace(_, _)
FirstNonSpace(s, i) ==
  IF i <= Len(s) /\ s[i] \in SpaceRunes THEN FirstNonSpace(s, i + 1) ELSE i

RECURSIVE LastNonSpace(_, _)
LastNonSpace(s, i) ==
  IF i >= 1 /\ s[i] \in SpaceRunes THEN LastNonSpace(s, i - 1) ELSE i

TrimSpace(s) == SubSeq(s, FirstNonSpace(s, 1), LastNonSpace(s, Len(s)))

\* unicode's caseOrbit: <<From, To>> for the runes whose simple case
\* folding class has more than two members, or whose next member is not
\* their other case ('k' -> Kelvin sign -> 'K': the class {K, k, Kelvin}
\* in increasing order, the last member going back to the first)
caseOrbit ==
  <<
    <<\h006B, \h212A>>, <<\h0073, \h017F>>, <<\h00DF, \h1E9E>>,
    <<\h00E5, \h212B>>, <<\h0130, \h0130>>, <<\h0131, \h0131>>,
    <<\h01C4, \h01C5>>, <<\h01C7, \h01C8>>, <<\h01CA, \h01CB>>,
    <<\h01F1, \h01F2>>, <<\h03A3, \h03C2>>, <<\h03B2, \h03D0>>,
    <<\h03B5, \h03F5>>, <<\h03B8, \h03D1>>, <<\h03B9, \h1FBE>>,
    <<\h03BA, \h03F0>>, <<\h03BC, \h00B5>>, <<\h03C0, \h03D6>>,
    <<\h03C1, \h03F1>>, <<\h03C2, \h03C3>>, <<\h03C6, \h03D5>>,
    <<\h03C9, \h2126>>, <<\h03D1, \h03F4>>, <<\h03F4, \h0398>>,
    <<\h0432, \h1C80>>, <<\h0434, \h1C81>>, <<\h043E, \h1C82>>,
    <<\h0441, \h1C83>>, <<\h0442, \h1C84>>, <<\h044A, \h1C86>>,
    <<\h0463, \h1C87>>, <<\h1C84, \h1C85>>, <<\h1E61, \h1E9B>>,
    <<\h1FBE, \h0345>>, <<\h2126, \h03A9>>, <<\h212A, \h004B>>,
    <<\h212B, \h00C5>>, <<\hA64B, \h1C88>>
  >>

\* unicode.SimpleFold(r): the next rune of r's folding class: the entry
\* of caseOrbit for r if there is one (at holds its index), or else the
\* other case of r (l is ToLower(r))
OtherCase(r, l) == IF l /= r THEN l ELSE ToUpperRune(r)

OrbitEntry(r, at) ==
  IF at /= {} THEN caseOrbit[CHOOSE i \in at : TRUE][2]
  ELSE OtherCase(r, ToLowerRune(r))

SimpleFold(r) ==
  OrbitEntry(r, { i \in 1..Len(caseOrbit) : caseOrbit[i][1] = r })

\* EqualFold's loop on a pair sr < tr: r := SimpleFold(sr);
\* for r != sr && r < tr { r = SimpleFold(r) }
RECURSIVE FoldLoop(_, _, _)
FoldLoop(r, sr, tr) ==
  IF r /= sr /\ r < tr THEN FoldLoop(SimpleFold(r), sr, tr) ELSE r

\* EqualFold on two runes sr < tr: an ASCII pair is an upper-case letter
\* and its lower case, any other pair two members of one folding class
EqualFoldPair(sr, tr) ==
  IF tr <= MaxASCII
  THEN sr \in AsciiUpper /\ tr = sr + (Rune("a") - Rune("A"))
  ELSE FoldLoop(SimpleFold(sr), sr, tr) = tr

\* One step of strings.EqualFold, on the runes a and b
EqualFoldRune(a, b) ==
  a = b \/ EqualFoldPair(IF a < b THEN a ELSE b, IF a < b THEN b ELSE a)

\* strings.EqualFold: equality under simple case folding, rune by rune
EqualFold(s, t) ==
  /\ Len(s) = Len(t)
  /\ \A i \in 1..Len(s) : EqualFoldRune(s[i], t[i])

\* strings.ReplaceAll for a one-rune pattern; new is a rune sequence
ReplaceAll(s, old, new) ==
  LET F[i \in 0..Len(s)] ==
        IF i = 0 THEN <<>>
        ELSE F[i - 1] \o (IF s[i] = old THEN new ELSE <<s[i]>>)
  IN  F[Len(s)]

---------------------------------------------------------------------------
(* internal/config: the rule store.                                        *)

\* *Category: nil, or a Category struct
NilCategory ==
  [isNil |-> TRUE, SubCategory |-> <<>>, Keywords |-> <<>>,
   ExactMatches |-> <<>>]

\* Category{SubCategory, Keywords, ExactMatches}
Category(sub, keywords, exactMatches) ==
  [isNil |-> FALSE, SubCategory |-> sub, Keywords |-> keywords,
   ExactMatches |-> exactMatches]

\* *Config: nil, or a Config struct.  Categories is a Go map: a function
\* from the category names present to *Category.
NilConfig == [isNil |-> TRUE, KnownPartners |-> <<>>, Categories |-> <<>>]

Config(knownPartners, categories) ==
  [isNil |-> FALSE, KnownPartners |-> knownPartners, Categories |-> categories]

\* &config.Config{KnownPartners: []string{}, Categories: make(map...)}
EmptyConfig == Config(<<>>, <<>>)

\* yaml.Unmarshal(data, &config) on a well-formed document: a category
\* whose value is null decodes to a nil *Category, a missing subcategory
\* to the empty string, a missing list to an empty list.  An optional
\* scalar of the document is a sequence of at most one element.
UnmarshalCategory(d) ==
  IF d.null THEN NilCategory
  ELSE Category(IF d.subcategory = <<>> THEN <<>> ELSE d.subcategory[1],
                d.keywords, d.exact_matches)

Unmarshal(doc) ==
  Config(doc.known_partners,
         [n \in DOMAIN doc.categories |-> UnmarshalCategory(doc.categories[n])])

\* What os.ReadFile and yaml.Unmarshal find at the config path:
\*   kind "absent"      no such file (ENOENT, os.IsNotExist)
\*   kind "unreadable"  the read fails otherwise (EACCES, EISDIR)
\*   kind "malformed"   yaml.Unmarshal returns an error
\*   kind "yaml"        a well-formed document, doc
EmptyDoc == [known_partners |-> <<>>, categories |-> <<>>]

File(kind, doc) == [kind |-> kind, doc |-> doc]

LoadResult(err, config) == [err |-> err, config |-> config]

\* LoadConfig(path), file being what is at path.  The nil map of a
\* document without categories becomes an empty map; both are the empty
\* function here.
LoadConfig(file) ==
  IF file.kind = "absent" THEN LoadResult("ENOENT", NilConfig)
  ELSE IF file.kind = "unreadable" THEN LoadResult("EACCES", NilConfig)
  ELSE IF file.kind = "malformed" THEN LoadResult("yaml", NilConfig)
  ELSE LoadResult("", Unmarshal(file.doc))

\* os.IsNotExist(err)
IsNotExist(err) == err = "ENOENT"

\* Config.IsKnownPartner
IsKnownPartner(c, partner) ==
  \E i \in 1..Len(c.KnownPartners) : c.KnownPartners[i] = partner

\* Variant of AddKnownPartner: the partner is appended in every case
AddKnownPartner_Always(c, partner) ==
  [c EXCEPT !.KnownPartners = Append(@, partner)]

\* Config.AddKnownPartner: the configuration afterwards
AddKnownPartner(c, partner) ==
  IF ~IsKnownPartner(c, partner)
  THEN [c EXCEPT !.KnownPartners = Append(@, partner)]
  ELSE c

\* Variant of loadConfigOrDefault: every load error is taken for a missing
\* file
loadConfigOrDefault_AnyError(hasPath, file) ==
  IF ~hasPath THEN LoadResult("", EmptyConfig)
  ELSE LET r == LoadConfig(file)
       IN  IF r.err /= "" THEN LoadResult("", EmptyConfig) ELSE r

\* cmd.loadConfigOrDefault(configPath); hasPath is configPath /= ""
loadConfigOrDefault(hasPath, file) ==
  IF ~hasPath THEN LoadResult("", EmptyConfig)
  ELSE LET r == LoadConfig(file)
       IN  IF r.err /= ""
           THEN IF IsNotExist(r.err) THEN LoadResult("", EmptyConfig)
                ELSE LoadResult(r.err, NilConfig)
           ELSE r

---------------------------------------------------------------------------
(* internal/categorizer                                                    *)

P_jovairas == Runes(<<"j","o'","v","a'","i'","r","a'","s">>)
P_fizetes == Runes(<<"f","i","z","e","t","e'","s">>)
P_hitel_torlesztes ==
  Runes(<<"h","i","t","e","l"," ","t","o:","r","l","e","s","z","t","e'","s">>)
P_keszpenz == Runes(<<"k","e'","s","z","p","e'","n","z">>)
P_dij == Runes(<<"d","i'","j">>)
P_koltseg == Runes(<<"k","o:","l","t","s","e'","g">>)
P_atutalas == Runes(<<"a'","t","u","t","a","l","a'","s">>)
P_atvezetes == Runes(<<"a'","t","v","e","z","e","t","e'","s">>)

\* What a call of Categorize ends with: a returned pair, or a run-time
\* panic (nil pointer dereference).  kind "none" is a loop that fell through.
Return(category, subCategory) ==
  [kind |-> "return", category |-> category, subCategory |-> subCategory]

Panic == [kind |-> "panic", category |-> <<>>, subCategory |-> <<>>]

FellThrough == [kind |-> "none", category |-> <<>>, subCategory |-> <<>>]

\* Priority 1: for categoryName, category := range Categories, in the
\* order the map iteration happens to take; category.ExactMatches of a nil
\* *Category panics.
RECURSIVE ExactMatchLoop(_, _, _, _)
ExactMatchLoop(partnerName, categories, order, i) ==
  IF i > Len(order) THEN FellThrough
  ELSE LET category == categories[order[i]]
       IN  IF category.isNil THEN Panic
           ELSE IF \E j \in 1..Len(category.ExactMatches) :
                      partnerName = category.ExactMatches[j]
                THEN Return(order[i], category.SubCategory)
                ELSE ExactMatchLoop(partnerName, categories, order, i + 1)

\* Priority 2: keyword match in the lower-cased partner name
RECURSIVE KeywordLoop(_, _, _, _)
KeywordLoop(partnerLower, categories, order, i) ==
  IF i > Len(order) THEN FellThrough
  ELSE LET category == categories[order[i]]
       IN  IF category.isNil THEN Panic
           ELSE IF \E j \in 1..Len(category.Keywords) :
                      Contains(partnerLower, ToLower(category.Keywords[j]))
                THEN Return(order[i], category.SubCategory)
                ELSE KeywordLoop(partnerLower, categories, order, i + 1)

\* Variant of TypeFallback: the fee phrases tested before the cash phrase
TypeFallback_FeeFirst(typeLower) ==
  IF Contains(typeLower, P_jovairas) \/ Contains(typeLower, P_fizetes)
  THEN Return(C_Miscellaneous, C_OtherIncome)
  ELSE IF Contains(typeLower, P_hitel_torlesztes)
  THEN Return(C_FinanceInsurance, C_InterestExpense)
  ELSE IF Contains(typeLower, P_dij) \/ Contains(typeLower, P_koltseg)
  THEN Return(C_FinanceInsurance, C_ServiceCharge)
  ELSE IF Contains(typeLower, P_keszpenz)
  THEN Return(C_GeneralTransfer, C_DepositsWithdrawals)
  ELSE Return(C_Miscellaneous, <<>>)

\* Priority 3 and the default
TypeFallback(typeLower) ==
  IF Contains(typeLower, P_jovairas) \/ Contains(typeLower, P_fizetes)
  THEN Return(C_Miscellaneous, C_OtherIncome)
  ELSE IF Contains(typeLower, P_hitel_torlesztes)
  THEN Return(C_FinanceInsurance, C_InterestExpense)
  ELSE IF Contains(typeLower, P_keszpenz)
  THEN Return(C_GeneralTransfer, C_DepositsWithdrawals)
  ELSE IF Contains(typeLower, P_dij) \/ Contains(typeLower, P_koltseg)
  THEN Return(C_FinanceInsurance, C_ServiceCharge)
  ELSE Return(C_Miscellaneous, <<>>)

\* The orders a range over a Go map can take: every permutation of its keys
RangeOrders(m) ==
  LET n == Cardinality(DOMAIN m)
  IN  { o \in [1..n -> DOMAIN m] : \A i, j \in 1..n : o[i] = o[j] => i = j }

\* Variant of Categorize: the keyword tier tried before the exact tier
Categorize_KeywordFirst(partnerName, transactionType, config, order1, order2) ==
  LET exact == ExactMatchLoop(partnerName, config.Categories, order1, 1)
      keyword == KeywordLoop(ToLower(partnerName), config.Categories, order2, 1)
  IN  IF keyword.kind /= "none" THEN keyword
      ELSE IF exact.kind /= "none" THEN exact
      ELSE TypeFallback(ToLower(transactionType))

\* Variant of Categorize: a phrase of the type label decides before the
\* keyword tier
Categorize_FallbackFirst(partnerName, transactionType, config, order1, order2) ==
  LET exact == ExactMatchLoop(partnerName, config.Categories, order1, 1)
      keyword == KeywordLoop(ToLower(partnerName), config.Categories, order2, 1)
      fallback == TypeFallback(ToLower(transactionType))
  IN  IF exact.kind /= "none" THEN exact
      ELSE IF fallback.subCategory /= <<>> THEN fallback
      ELSE IF keyword.kind /= "none" THEN keyword
      ELSE fallback

\* Categorizer.Categorize(partnerName, transactionType), the categorizer
\* holding config; order1 and order2 are the iteration orders of its two
\* range loops.
Categorize(partnerName, transactionType, config, order1, order2) ==
  LET partnerLower == ToLower(partnerName)
      typeLower == ToLower(transactionType)
      exact == ExactMatchLoop(partnerName, config.Categories, order1, 1)
      keyword == KeywordLoop(partnerLower, config.Categories, order2, 1)
  IN  IF exact.kind /= "none" THEN exact
      ELSE IF keyword.kind /= "none" THEN keyword
      ELSE TypeFallback(typeLower)

\* Categorize from the end of its first range loop on, which returned
\* exact: the return inside that loop, or the second loop and the fallbacks
CategorizeRest(exact, partnerName, transactionType, config, order2) ==
  LET partnerLower == ToLower(partnerName)
      typeLower == ToLower(transactionType)
      keyword == KeywordLoop(partnerLower, config.Categories, order2, 1)
  IN  IF exact.kind /= "none" THEN exact
      ELSE IF keyword.kind /= "none" THEN keyword
      ELSE TypeFallback(typeLower)

\* Categorizer.GetUncategorizedPartners: the loop, from partner i on, with
\* the names seen and the result so far
RECURSIVE UncategorizedLoop(_, _, _, _, _)
UncategorizedLoop(partners, config, i, seen, uncategorized) ==
  IF i > Len(partners) THEN uncategorized
  ELSE LET partner == TrimSpace(partners[i])
       IN  IF partner = <<>>
           THEN UncategorizedLoop(partners, config, i + 1, seen, uncategorized)
           ELSE IF partner \in seen
           THEN UncategorizedLoop(partners, config, i + 1, seen, uncategorized)
           ELSE IF IsKnownPartner(config, partner)
           THEN UncategorizedLoop(partners, config, i + 1,
                                  seen \cup {partner}, uncategorized)
           ELSE UncategorizedLoop(partners, config, i + 1,
                                  seen \cup {partner},
                                  Append(uncategorized, partner))

\* Variant of GetUncategorizedPartners: the loop starts at the second name
GetUncategorizedPartners_SkipFirst(partners, config) ==
  UncategorizedLoop(partners, config, 2, {}, <<>>)

GetUncategorizedPartners(partners, config) ==
  UncategorizedLoop(partners, config, 1, {}, <<>>)

---------------------------------------------------------------------------
(* internal/anonymizer                                                     *)

\* accountNumberPattern = `^[A-Z]{2}\d{10,34}$`
AccountLetters == 2
AccountMinDigits == 10
AccountMaxDigits == 34

\* accountNumberPattern.MatchString(s)
MatchAccountNumber(s) ==
  /\ Len(s) >= AccountLetters + AccountMinDigits
  /\ Len(s) <= AccountLetters + AccountMaxDigits
  /\ \A i \in 1..AccountLetters : s[i] \in AsciiUpper
  /\ \A i \in (AccountLetters + 1)..Len(s) : s[i] \in AsciiDigits

\* *anonymizer.Config: nil, or Config{OwnerName}
NilAnonConfig == [isNil |-> TRUE, OwnerName |-> <<>>]

AnonConfig(ownerName) == [isNil |-> FALSE, OwnerName |-> ownerName]

\* AnonymizationResult{Original, Anonymized, IsPersonal, DetectionType}
AnonymizationResult(original, anonymized, isPersonal, detectionType) ==
  [Original |-> original, Anonymized |-> anonymized,
   IsPersonal |-> isPersonal, DetectionType |-> detectionType]

\* The runes of the three placeholder literals
R_ACCOUNT_NUMBER ==
  Runes(<<"[","A","C","C","O","U","N","T","_","N","U","M","B","E","R","]">>)
R_OWNER_NAME == Runes(<<"[","O","W","N","E","R","_","N","A","M","E","]">>)
R_TRANSFER_PARTNER ==
  Runes(<<"[","T","R","A","N","S","F","E","R","_","P","A","R","T","N","E","R","]">>)

\* Variant of IsTransfer: the phrase "a'tvezete's" is not tested
IsTransfer_TwoPhrases(typeLower) ==
  Contains(typeLower, P_atutalas) \/ Contains(typeLower, P_jovairas)

\* isTransfer of Anonymize
IsTransfer(typeLower) ==
  \/ Contains(typeLower, P_atutalas)
  \/ Contains(typeLower, P_atvezetes)
  \/ Contains(typeLower, P_jovairas)

\* Variant of Anonymize: the transfer heuristic tried before the owner name
Anonymize_TransferFirst(merchantName, transactionType, anonCfg) ==
  LET trimmed == TrimSpace(merchantName)
  IN  IF trimmed = <<>>
      THEN AnonymizationResult(merchantName, merchantName, FALSE, "none")
      ELSE IF MatchAccountNumber(trimmed)
      THEN AnonymizationResult(merchantName, R_ACCOUNT_NUMBER, TRUE,
                               "account_number")
      ELSE IF IsTransfer(ToLower(transactionType))
      THEN AnonymizationResult(merchantName, R_TRANSFER_PARTNER, TRUE,
                               "transfer_partner")
      ELSE IF /\ ~anonCfg.isNil
              /\ anonCfg.OwnerName /= <<>>
              /\ EqualFold(trimmed, anonCfg.OwnerName)
      THEN AnonymizationResult(merchantName, R_OWNER_NAME, TRUE, "owner_name")
      ELSE AnonymizationResult(merchantName, merchantName, FALSE, "none")

\* Variant of Anonymize: the owner name tried before the account number
Anonymize_OwnerFirst(merchantName, transactionType, anonCfg) ==
  LET trimmed == TrimSpace(merchantName)
  IN  IF trimmed = <<>>
      THEN AnonymizationResult(merchantName, merchantName, FALSE, "none")
      ELSE IF /\ ~anonCfg.isNil
              /\ anonCfg.OwnerName /= <<>>
              /\ EqualFold(trimmed, anonCfg.OwnerName)
      THEN AnonymizationResult(merchantName, R_OWNER_NAME, TRUE, "owner_name")
      ELSE IF MatchAccountNumber(trimmed)
      THEN AnonymizationResult(merchantName, R_ACCOUNT_NUMBER, TRUE,
                               "account_number")
      ELSE IF IsTransfer(ToLower(transactionType))
      THEN AnonymizationResult(merchantName, R_TRANSFER_PARTNER, TRUE,
                               "transfer_partner")
      ELSE AnonymizationResult(merchantName, merchantName, FALSE, "none")

\* Variant of Anonymize: the blank name tested after the other rules
Anonymize_BlankLast(merchantName, transactionType, anonCfg) ==
  LET trimmed == TrimSpace(merchantName)
      typeLower == ToLower(transactionType)
  IN  IF MatchAccountNumber(trimmed)
      THEN AnonymizationResult(merchantName, R_ACCOUNT_NUMBER, TRUE,
                               "account_number")
      ELSE IF /\ ~anonCfg.isNil
              /\ anonCfg.OwnerName /= <<>>
              /\ EqualFold(trimmed, anonCfg.OwnerName)
      THEN AnonymizationResult(merchantName, R_OWNER_NAME, TRUE, "owner_name")
      ELSE IF IsTransfer(typeLower)
      THEN AnonymizationResult(merchantName, R_TRANSFER_PARTNER, TRUE,
                               "transfer_partner")
      ELSE AnonymizationResult(merchantName, merchantName, FALSE, "none")

\* Variant of Anonymize: a name that is not personal is returned trimmed
Anonymize_TrimmedDefault(merchantName, transactionType, anonCfg) ==
  LET trimmed == TrimSpace(merchantName)
      typeLower == ToLower(transactionType)
  IN  IF trimmed = <<>>
      THEN AnonymizationResult(merchantName, trimmed, FALSE, "none")
      ELSE IF MatchAccountNumber(trimmed)
      THEN AnonymizationResult(merchantName, R_ACCOUNT_NUMBER, TRUE,
                               "account_number")
      ELSE IF /\ ~anonCfg.isNil
              /\ anonCfg.OwnerName /= <<>>
              /\ EqualFold(trimmed, anonCfg.OwnerName)
      THEN AnonymizationResult(merchantName, R_OWNER_NAME, TRUE, "owner_name")
      ELSE IF IsTransfer(typeLower)
      THEN AnonymizationResult(merchantName, R_TRANSFER_PARTNER, TRUE,
                               "transfer_partner")
      ELSE AnonymizationResult(merchantName, trimmed, FALSE, "none")

\* anonymizer.Anonymize(merchantName, transactionType, cfg)
Anonymize(merchantName, transactionType, anonCfg) ==
  LET trimmed == TrimSpace(merchantName)
      typeLower == ToLower(transactionType)
  IN  IF trimmed = <<>>
      THEN AnonymizationResult(merchantName, merchantName, FALSE, "none")
      ELSE IF MatchAccountNumber(trimmed)
      THEN AnonymizationResult(merchantName, R_ACCOUNT_NUMBER, TRUE,
                               "account_number")
      ELSE IF /\ ~anonCfg.isNil
              /\ anonCfg.OwnerName /= <<>>
              /\ EqualFold(trimmed, anonCfg.OwnerName)
      THEN AnonymizationResult(merchantName, R_OWNER_NAME, TRUE, "owner_name")
      ELSE IF IsTransfer(typeLower)
      THEN AnonymizationResult(merchantName, R_TRANSFER_PARTNER, TRUE,
                               "transfer_partner")
      ELSE AnonymizationResult(merchantName, merchantName, FALSE, "none")

---------------------------------------------------------------------------
(* internal/parser                                                         *)

DigitRunes == Runes(<<"0","1","2","3","4","5","6","7","8","9">>)

DigitValue(r) == r - Rune("0")

IsDigits(s) == \A i \in 1..Len(s) : s[i] \in AsciiDigits

\* strconv.Atoi on a sequence of digits
RECURSIVE Atoi(_)
Atoi(s) ==
  IF s = <<>> THEN 0
  ELSE 10 * Atoi(SubSeq(s, 1, Len(s) - 1)) + DigitValue(s[Len(s)])

\* The decimal digits of n >= 0
RECURSIVE Itoa(_)
Itoa(n) ==
  IF n < 10 THEN <<DigitRunes[n + 1]>>
  ELSE Itoa(n \div 10) \o <<DigitRunes[(n % 10) + 1]>>

\* n printed with at least w digits (%0wd)
RECURSIVE Pad(_, _)
Pad(n, w) == IF Len(Itoa(n)) >= w THEN Itoa(n) ELSE Runes(<<"0">>) \o Pad(n, w - 1)

\* time: daysIn(month, year)
IsLeap(year) == year % 4 = 0 /\ (year % 100 /= 0 \/ year % 400 = 0)

DaysIn(month, year) ==
  IF month = 2 THEN (IF IsLeap(year) THEN 29 ELSE 28)
  ELSE IF month \in {4, 6, 9, 11} THEN 30 ELSE 31

Time(year, month, day, hour, min, sec) ==
  [year |-> year, month |-> month, day |-> day,
   hour |-> hour, min |-> min, sec |-> sec]

ZeroTime == Time(1, 1, 1, 0, 0, 0)

TimeResult(ok, t) == [ok |-> ok, t |-> t]

\* time.Parse("2006.01.02", s): four digits, two, two, and no more;
\* month and day in range
ParseDateOnly(s) ==
  IF /\ Len(s) = 10
     /\ s[5] = Rune(".") /\ s[8] = Rune(".")
     /\ IsDigits(SubSeq(s, 1, 4)) /\ IsDigits(SubSeq(s, 6, 7))
     /\ IsDigits(SubSeq(s, 9, 10))
  THEN LET year == Atoi(SubSeq(s, 1, 4))
           month == Atoi(SubSeq(s, 6, 7))
           day == Atoi(SubSeq(s, 9, 10))
       IN  IF month >= 1 /\ month <= 12 /\ day >= 1 /\ day <= DaysIn(month, year)
           THEN TimeResult(TRUE, Time(year, month, day, 0, 0, 0))
           ELSE TimeResult(FALSE, ZeroTime)
  ELSE TimeResult(FALSE, ZeroTime)

\* time: cutspace(s), s without its leading spaces (U+0020 only)
RECURSIVE cutspace(_)
cutspace(s) == IF s /= <<>> /\ s[1] = Rune(" ") THEN cutspace(Tail(s)) ELSE s

\* time.Parse("2006.01.02 15:04:05", s): the date, one or more spaces
\* (the layout's space stands for a run of spaces), an hour of one or two
\* digits, two-digit minute and second, and optionally a fractional
\* second ("." or "," and digits), which the layout's Time drops
ParseDateTime(s) ==
  IF Len(s) >= 11 /\ s[11] = Rune(" ") /\ ParseDateOnly(SubSeq(s, 1, 10)).ok
  THEN LET d == ParseDateOnly(SubSeq(s, 1, 10)).t
           r == cutspace(SubSeq(s, 11, Len(s)))
           hl == IF Len(r) >= 2 /\ r[2] \in AsciiDigits THEN 2 ELSE 1
           frac == SubSeq(r, hl + 7, Len(r))
       IN  IF /\ Len(r) >= hl + 6
              /\ IsDigits(SubSeq(r, 1, hl))
              /\ r[hl + 1] = Rune(":") /\ IsDigits(SubSeq(r, hl + 2, hl + 3))
              /\ r[hl + 4] = Rune(":") /\ IsDigits(SubSeq(r, hl + 5, hl + 6))
              /\ Atoi(SubSeq(r, 1, hl)) <= 23
              /\ Atoi(SubSeq(r, hl + 2, hl + 3)) <= 59
              /\ Atoi(SubSeq(r, hl + 5, hl + 6)) <= 59
              /\ \/ frac = <<>>
                 \/ /\ Len(frac) >= 2
                    /\ frac[1] \in {Rune("."), Rune(",")}
                    /\ IsDigits(SubSeq(frac, 2, Len(frac)))
           THEN TimeResult(TRUE, Time(d.year, d.month, d.day,
                                      Atoi(SubSeq(r, 1, hl)),
                                      Atoi(SubSeq(r, hl + 2, hl + 3)),
                                      Atoi(SubSeq(r, hl + 5, hl + 6))))
           ELSE TimeResult(FALSE, ZeroTime)
  ELSE TimeResult(FALSE, ZeroTime)

\* parser.ParseDate
ParseDate(dateStr) ==
  LET s == TrimSpace(dateStr)
  IN  IF ParseDateTime(s).ok THEN ParseDateTime(s) ELSE ParseDateOnly(s)

\* parser.getField
getField(record, index) ==
  IF index < Len(record) THEN TrimSpace(record[index + 1]) ELSE <<>>

KHTransaction(record) ==
  [Date |-> TrimSpace(record[1]),
   TransactionID |-> TrimSpace(record[2]),
   Type |-> TrimSpace(record[3]),
   AccountNumber |-> TrimSpace(record[4]),
   AccountName |-> TrimSpace(record[5]),
   PartnerAccount |-> TrimSpace(record[6]),
   PartnerName |-> TrimSpace(record[7]),
   Amount |-> TrimSpace(record[8]),
   Currency |-> TrimSpace(record[9]),
   Description |-> getField(record, 9)]

MinFields == 9
MinRecords == 2

\* The loop of ParseKHExport over records[1:], rows of fewer than nine
\* fields skipped
RECURSIVE ParseRows(_, _)
ParseRows(records, i) ==
  IF i > Len(records) THEN <<>>
  ELSE IF Len(records[i]) < MinFields THEN ParseRows(records, i + 1)
  ELSE <<KHTransaction(records[i])>> \o ParseRows(records, i + 1)

ParseResult(err, transactions) == [err |-> err, transactions |-> transactions]

\* parser.ParseKHExport(reader); input is what the csv reader makes of the
\* file: kind "csverror" (ReadAll fails) or kind "records"
ParseKHExport(input) ==
  IF input.kind = "csverror" THEN ParseResult("error reading TSV", <<>>)
  ELSE IF Len(input.records) < MinRecords
  THEN ParseResult("file must contain at least header and one transaction", <<>>)
  ELSE ParseResult("", ParseRows(input.records, 2))

---------------------------------------------------------------------------
(* internal/converter                                                      *)

(* strconv.ParseFloat and fmt's %.2f.  A float64 is exact here: a natural  *)
(* number is the sequence of its decimal digits (0..9, most significant    *)
(* first, no leading zero, <<>> for zero), and a finite float64 is a       *)
(* mantissa below 2^53 and a binary exponent.                              *)

NatTrim(d) ==
  LET nz == { i \in 1..Len(d) : d[i] /= 0 }
  IN  IF nz = {} THEN <<>>
      ELSE SubSeq(d, CHOOSE i \in nz : \A j \in nz : i <= j, Len(d))

NatLess(a, b) ==
  \/ Len(a) < Len(b)
  \/ /\ Len(a) = Len(b)
     /\ \E i \in 1..Len(a) : a[i] < b[i] /\ \A j \in 1..(i - 1) : a[j] = b[j]

NatOdd(d) == d /= <<>> /\ d[Len(d)] % 2 = 1

\* 2 * d: a digit's carry comes from the digit to its right alone
NatDouble(d) ==
  (IF d /= <<>> /\ d[1] >= 5 THEN <<1>> ELSE <<>>)
    \o [i \in 1..Len(d) |->
          (2 * d[i] + (IF i < Len(d) /\ d[i + 1] >= 5 THEN 1 ELSE 0)) % 10]

\* d \div 2: a digit's borrow comes from the digit to its left alone
NatHalve(d) ==
  NatTrim(<<>> \o [i \in 1..Len(d) |->
                     (d[i] + (IF i > 1 /\ d[i - 1] % 2 = 1 THEN 10 ELSE 0))
                       \div 2])

\* d + k, for a small k
RECURSIVE NatAdd(_, _)
NatAdd(d, k) ==
  IF k = 0 THEN d
  ELSE IF d = <<>> THEN NatAdd(<<>>, k \div 10) \o <<k % 10>>
  ELSE NatAdd(SubSeq(d, 1, Len(d) - 1), (d[Len(d)] + k) \div 10)
         \o <<(d[Len(d)] + k) % 10>>

\* The steps of a long loop, taken Chunk at a time
Chunk == 32

\* d * 2^n
RECURSIVE NatShift(_, _)
NatShift(d, n) ==
  IF d = <<>> \/ n = 0 THEN d
  ELSE IF n > Chunk THEN NatShift(NatShift(d, Chunk), n - Chunk)
  ELSE NatShift(NatDouble(d), n - 1)

\* d \div 2^n
RECURSIVE NatShiftRight(_, _)
NatShiftRight(d, n) ==
  IF d = <<>> \/ n = 0 THEN d
  ELSE IF n > Chunk THEN NatShiftRight(NatShiftRight(d, Chunk), n - Chunk)
  ELSE NatShiftRight(NatHalve(d), n - 1)

\* float64: a mantissa of at most 53 bits (below Pow53, from Pow52 on
\* unless denormal) and, for the mantissa as an integer, exponents from
\* -1074 (denormals) to 971
MinExp == -1074
MaxExp == 971
Pow52 == <<4,5,0,3,5,9,9,6,2,7,3,7,0,4,9,6>>
Pow53 == <<9,0,0,7,1,9,9,2,5,4,7,4,0,9,9,2>>

\* A float64: kind "finite" (mant * 2^exp, mant = <<>> for zero), "inf" or
\* "nan"; neg is the sign bit
Float(kind, neg, mant, exp) ==
  [kind |-> kind, neg |-> neg, mant |-> mant, exp |-> exp]

Zero(neg) == Float("finite", neg, <<>>, 0)

FloatResult(ok, f) == [ok |-> ok, f |-> f]

SyntaxError == FloatResult(FALSE, Zero(FALSE))
RangeError(neg) == FloatResult(FALSE, Float("inf", neg, <<>>, 0))

\* amount > 0
GreaterThanZero(f) ==
  /\ f.kind /= "nan"
  /\ ~f.neg
  /\ f.kind = "inf" \/ f.mant /= <<>>

\* math.Abs
Abs(f) == [f EXCEPT !.neg = FALSE]

\* x \div 10^s
IntPart(x, s) == SubSeq(x, 1, Len(x) - s)

\* The s digits of x % 10^s, leading zeros kept
FracPart(x, s) ==
  <<>> \o [i \in 1..s |-> IF i + Len(x) - s >= 1 THEN x[i + Len(x) - s] ELSE 0]

\* x / 10^s * 2^e, doubled until its integer part has 53 bits or the
\* exponent is the least one; a hundred or ten doublings are taken at once
\* where the integer part stays below 2^52 throughout
RECURSIVE ScaleUp(_, _, _)
ScaleUp(x, s, e) ==
  IF Len(x) + 16 <= s /\ e - 100 >= MinExp
  THEN ScaleUp(NatShift(x, 100), s, e - 100)
  ELSE IF Len(x) <= s + 12 /\ e - 10 >= MinExp
  THEN ScaleUp(NatShift(x, 10), s, e - 10)
  ELSE IF NatLess(IntPart(x, s), Pow52) /\ e > MinExp
  THEN ScaleUp(NatDouble(x), s, e - 1)
  ELSE [x |-> x, e |-> e]

\* (i + fraction) * 2^e halved n times, n >= 1; guard is the first bit of
\* the fraction, sticky whether any later bit is set
HalveBy(i, e, guard, sticky, n) ==
  [i |-> NatShiftRight(i, n), e |-> e + n,
   guard |-> NatOdd(NatShiftRight(i, n - 1)),
   sticky |-> sticky \/ guard
                \/ NatShift(NatShiftRight(i, n - 1), n - 1) /= i]

\* (i + fraction) * 2^e, halved until i has at most 53 bits and the
\* exponent is at least the least one; a hundred or ten halvings are
\* taken at once where i keeps more than 53 bits throughout
RECURSIVE ScaleDown(_)
ScaleDown(f) ==
  IF Len(f.i) >= 48
  THEN ScaleDown(HalveBy(f.i, f.e, f.guard, f.sticky, 100))
  ELSE IF Len(f.i) >= 21
  THEN ScaleDown(HalveBy(f.i, f.e, f.guard, f.sticky, 10))
  ELSE IF ~NatLess(f.i, Pow53) \/ (f.e < MinExp /\ f.i /= <<>>)
  THEN ScaleDown(HalveBy(f.i, f.e, f.guard, f.sticky, 1))
  ELSE IF f.e < MinExp
  THEN [i |-> <<>>, e |-> MinExp, guard |-> FALSE, sticky |-> TRUE]
  ELSE f

\* A mantissa and exponent after rounding: a mantissa of 2^53 is 2^52 at
\* the next exponent; out of range when the value is 2^1024 or more
Rounded(neg, mant, exp) ==
  IF mant = <<>> THEN FloatResult(TRUE, Zero(neg))
  ELSE IF (IF mant = Pow53 THEN exp + 1 ELSE exp) > MaxExp THEN RangeError(neg)
  ELSE FloatResult(TRUE, Float("finite", neg,
                                IF mant = Pow53 THEN Pow52 ELSE mant,
                                IF mant = Pow53 THEN exp + 1 ELSE exp))

\* Round to nearest, ties to even, on the guard and sticky bits
RoundHalved(neg, down) ==
  Rounded(neg,
          IF down.guard /\ (down.sticky \/ NatOdd(down.i))
          THEN NatAdd(down.i, 1) ELSE down.i,
          down.e)

\* up.x / 10^s * 2^up.e: the fraction's first decimal digit gives the
\* guard bit, its other digits the sticky bit
RoundScaled(neg, s, up) ==
  LET r == FracPart(up.x, s)
  IN  RoundHalved(neg,
        ScaleDown([i |-> IntPart(up.x, s), e |-> up.e,
                   guard |-> s >= 1 /\ r[1] >= 5,
                   sticky |-> s >= 1 /\ (r[1] \notin {0, 5}
                                           \/ \E k \in 2..s : r[k] /= 0)]))

\* The float64 nearest to m / 10^s * 2^b, ties to even
RoundToFloat(neg, m, s, b) ==
  IF m = <<>> THEN FloatResult(TRUE, Zero(neg))
  ELSE RoundScaled(neg, s, ScaleUp(m, s, b))

\* strconv's lower(c) = c | 0x20 on the letters it is asked about
AsciiLower(r) == IF r \in AsciiUpper THEN ToLowerRune(r) ELSE r

\* The hexadecimal digits that are letters: 'a' <= lower(c) <= 'f'
HexLetters == Runes(<<"a","b","c","d","e","f","A","B","C","D","E","F">>)

IsHexLetter(r) == \E k \in 1..Len(HexLetters) : HexLetters[k] = r

HexValue(r) ==
  IF r \in AsciiDigits THEN DigitValue(r)
  ELSE 10 + (((CHOOSE k \in 1..Len(HexLetters) : HexLetters[k] = r) - 1) % 6)

\* strconv: commonPrefixLenIgnoreCase(s, prefix), prefix in lower case
RECURSIVE commonPrefixLenIgnoreCase(_, _)
commonPrefixLenIgnoreCase(s, prefix) ==
  IF s = <<>> \/ prefix = <<>> \/ AsciiLower(s[1]) /= prefix[1] THEN 0
  ELSE 1 + commonPrefixLenIgnoreCase(Tail(s), Tail(prefix))

\* strconv: special(s): "inf" and "infinity" with an optional sign, "nan"
\* without one; n is the number of runes taken
special(s) ==
  LET signed == s /= <<>> /\ s[1] \in {Rune("+"), Rune("-")}
      p == commonPrefixLenIgnoreCase(IF signed THEN Tail(s) ELSE s,
                                     Runes(<<"i","n","f","i","n","i","t","y">>))
      n == IF 3 < p /\ p < 8 THEN 3 ELSE p
  IN  IF s = <<>> THEN [ok |-> FALSE, n |-> 0, f |-> Zero(FALSE)]
      ELSE IF (signed \/ s[1] \in {Rune("i"), Rune("I")}) /\ n \in {3, 8}
      THEN [ok |-> TRUE, n |-> (IF signed THEN 1 ELSE 0) + n,
            f |-> Float("inf", s[1] = Rune("-"), <<>>, 0)]
      ELSE IF s[1] \in {Rune("n"), Rune("N")} /\ Len(s) >= 3
              /\ s[2] \in {Rune("a"), Rune("A")} /\ s[3] \in {Rune("n"), Rune("N")}
      THEN [ok |-> TRUE, n |-> 3, f |-> Float("nan", FALSE, <<>>, 0)]
      ELSE [ok |-> FALSE, n |-> 0, f |-> Zero(FALSE)]

\* readFloat's loop over the mantissa from position i: the position of
\* the first rune that is no digit, underscore or first "."
RECURSIVE MantissaEnd(_, _, _, _)
MantissaEnd(s, i, hex, sawdot) ==
  IF i > Len(s) THEN i
  ELSE IF s[i] = Rune("_") THEN MantissaEnd(s, i + 1, hex, sawdot)
  ELSE IF s[i] = Rune(".") THEN (IF sawdot THEN i ELSE MantissaEnd(s, i + 1, hex, TRUE))
  ELSE IF s[i] \in AsciiDigits \/ (hex /\ IsHexLetter(s[i]))
  THEN MantissaEnd(s, i + 1, hex, sawdot)
  ELSE i

\* readFloat's loop over the exponent's digits and underscores
RECURSIVE ExponentEnd(_, _)
ExponentEnd(s, i) ==
  IF i <= Len(s) /\ (s[i] \in AsciiDigits \/ s[i] = Rune("_"))
  THEN ExponentEnd(s, i + 1) ELSE i

\* The exponent readFloat accumulates: digits past 10000 are dropped
RECURSIVE ExponentValue(_, _)
ExponentValue(digits, e) ==
  IF digits = <<>> THEN e
  ELSE ExponentValue(Tail(digits),
                     IF e < 10000 THEN e * 10 + DigitValue(digits[1]) ELSE e)

\* The mantissa's digits as a number in base 10 or 16
RECURSIVE MantissaValue(_, _)
MantissaValue(digits, hex) ==
  IF digits = <<>> THEN <<>>
  ELSE IF hex
  THEN NatAdd(NatShift(MantissaValue(SubSeq(digits, 1, Len(digits) - 1), hex), 4),
              HexValue(digits[Len(digits)]))
  ELSE NatTrim(<<>> \o [i \in 1..Len(digits) |-> DigitValue(digits[i])])

\* strconv: underscoreOK(s): an underscore stands between two digits, or
\* between the base prefix and a digit
underscoreOK(s, hex, first) ==
  \A j \in 1..Len(s) :
    s[j] = Rune("_") =>
      /\ j > first \/ (hex /\ j = first)
      /\ \/ hex /\ j = first
         \/ s[j - 1] \in AsciiDigits
         \/ hex /\ IsHexLetter(s[j - 1])
      /\ j < Len(s)
      /\ s[j + 1] \in AsciiDigits \/ (hex /\ IsHexLetter(s[j + 1]))

\* The digits among s[from..upto], "_" and "." left out
DigitsIn(s, from, upto, hex) ==
  LET F[i \in (from - 1)..upto] ==
        IF i < from THEN <<>>
        ELSE IF s[i] \in AsciiDigits \/ (hex /\ IsHexLetter(s[i]))
        THEN Append(F[i - 1], s[i]) ELSE F[i - 1]
  IN  IF upto < from THEN <<>> ELSE F[upto]

\* What readFloat returns: the number is mantissa * 10^exp, or mantissa *
\* 2^exp when hex; n is the number of runes taken
ReadResult(ok, neg, hex, mantissa, exp, n) ==
  [ok |-> ok, neg |-> neg, hex |-> hex, mantissa |-> mantissa,
   exp |-> exp, n |-> n]

\* readFloat from the exponent on: the mantissa is s[first..mend-1] with
\* the given digits, nfrac of them after the "."; hasexp: an "e" (hex: "p")
\* stands at mend; the exponent's digits are s[estart..eend-1]
readExponent(s, hex, first, mend, digits, nfrac, hasexp, estart, eend) ==
  ReadResult(/\ digits /= <<>>
             /\ hasexp => (estart <= Len(s) /\ s[estart] \in AsciiDigits)
             /\ hex => hasexp
             /\ underscoreOK(SubSeq(s, 1, (IF hasexp THEN eend ELSE mend) - 1),
                             hex, first),
             s /= <<>> /\ s[1] = Rune("-"),
             hex,
             MantissaValue(digits, hex),
             (IF hasexp
              THEN ExponentValue(DigitsIn(s, estart, eend - 1, FALSE), 0)
                     * (IF s[estart - 1] = Rune("-") THEN -1 ELSE 1)
              ELSE 0) - (IF hex THEN 4 ELSE 1) * nfrac,
             (IF hasexp THEN eend ELSE mend) - 1)

\* readFloat from the end of the mantissa (mend) on
readMantissa(s, hex, first, mend) ==
  LET dots == { i \in first..(mend - 1) : s[i] = Rune(".") }
      dot == IF dots = {} THEN mend ELSE CHOOSE i \in dots : TRUE
      mark == mend <= Len(s)
                /\ s[mend] \in (IF hex THEN {Rune("p"), Rune("P")} ELSE {Rune("e"), Rune("E")})
      from == IF mend + 1 <= Len(s) /\ s[mend + 1] \in {Rune("+"), Rune("-")}
              THEN mend + 2 ELSE mend + 1
  IN  readExponent(s, hex, first, mend,
                   DigitsIn(s, first, mend - 1, hex),
                   Len(DigitsIn(s, dot + 1, mend - 1, hex)),
                   mark, from, ExponentEnd(s, from))

\* strconv: readFloat(s): an optional sign, an optional 0x, digits with at
\* most one ".", and an exponent (e for decimal digits, p for hexadecimal
\* ones, where it is required)
readFloat(s) ==
  LET start == IF s /= <<>> /\ s[1] \in {Rune("+"), Rune("-")} THEN 2 ELSE 1
      base16 == /\ start + 2 <= Len(s)
                /\ s[start] = Rune("0")
                /\ s[start + 1] \in {Rune("x"), Rune("X")}
      begin == IF base16 THEN start + 2 ELSE start
  IN  readMantissa(s, base16, begin, MantissaEnd(s, begin, base16, FALSE))

\* strconv: atof64 on what special (sp) and readFloat (rf) make of s.  The
\* value is rounded to the nearest float64; out of range is an error,
\* underflow is zero.
atof64(s, sp, rf) ==
  IF sp.ok THEN (IF sp.n = Len(s) THEN FloatResult(TRUE, sp.f) ELSE SyntaxError)
  ELSE IF ~rf.ok \/ rf.n /= Len(s) THEN SyntaxError
  ELSE IF rf.hex THEN RoundToFloat(rf.neg, rf.mantissa, 0, rf.exp)
  ELSE IF rf.mantissa = <<>> THEN FloatResult(TRUE, Zero(rf.neg))
  ELSE IF Len(rf.mantissa) + rf.exp > 310 THEN RangeError(rf.neg)
  ELSE IF Len(rf.mantissa) + rf.exp < -330 THEN FloatResult(TRUE, Zero(rf.neg))
  ELSE RoundToFloat(rf.neg, rf.mantissa \o [k \in 1..rf.exp |-> 0],
                    IF rf.exp > 0 THEN 0 ELSE -rf.exp, 0)

\* strconv.ParseFloat(s, 64): the whole of s must be taken
ParseFloat(s) == atof64(s, special(s), readFloat(s))

\* parseAmount's return on what ParseFloat made of the string: the amount,
\* or 0 and an error
AmountOrError(parsed) ==
  IF ~parsed.ok THEN FloatResult(FALSE, Zero(FALSE)) ELSE parsed

\* converter.parseAmount
parseAmount(amountStr) ==
  AmountOrError(ParseFloat(ReplaceAll(ReplaceAll(amountStr, Rune(" "), <<>>),
                                      Rune(","), Runes(<<".">>))))

\* d * 5^n
RECURSIVE NatTimes5(_, _)
NatTimes5(d, n) ==
  IF d = <<>> \/ n = 0 THEN d
  ELSE IF n > Chunk THEN NatTimes5(NatTimes5(d, Chunk), n - Chunk)
  ELSE NatTimes5(NatHalve(Append(d, 0)), n - 1)

NatRunes(d) == <<>> \o [i \in 1..Len(d) |-> DigitRunes[d[i] + 1]]

\* n hundredths as runes, with the point
PutPoint(n) ==
  LET out == [i \in 1..(3 - Len(n)) |-> 0] \o n
  IN  NatRunes(SubSeq(out, 1, Len(out) - 2)) \o Runes(<<".">>)
        \o NatRunes(SubSeq(out, Len(out) - 1, Len(out)))

\* kept hundredths and the digits after them (rest): round to nearest,
\* ties to even
RoundAt(kept, rest) ==
  IF /\ rest /= <<>>
     /\ \/ rest[1] > 5
        \/ /\ rest[1] = 5
           /\ (\E j \in 2..Len(rest) : rest[j] /= 0) \/ NatOdd(kept)
  THEN NatAdd(kept, 1) ELSE kept

\* d / 10^k to two decimals, k >= 1
RoundFixed2(d, k) ==
  LET all == [i \in 1..(k + 1 - Len(d)) |-> 0] \o d \o <<0, 0>>
      cut == Len(all) - k
  IN  PutPoint(RoundAt(NatTrim(SubSeq(all, 1, cut)),
                       SubSeq(all, cut + 1, Len(all))))

\* strconv.FormatFloat(f, 'f', 2, 64) of a finite f > 0: the exact
\* decimal expansion of mant * 2^exp = mant * 5^(-exp) / 10^(-exp),
\* rounded to two decimals
FormatFixed2(mant, exp) ==
  IF exp >= 0 THEN NatRunes(NatShift(mant, exp)) \o Runes(<<".", "0", "0">>)
  ELSE RoundFixed2(NatTimes5(mant, -exp), -exp)

\* converter.formatAmount: fmt.Sprintf("%.2f", amount)
formatAmount(amount) ==
  IF amount.kind = "nan" THEN Runes(<<"N", "a", "N">>)
  ELSE IF amount.kind = "inf"
  THEN Runes(<<(IF amount.neg THEN "-" ELSE "+"), "I", "n", "f">>)
  ELSE (IF amount.neg THEN Runes(<<"-">>) ELSE <<>>)
         \o (IF amount.mant = <<>> THEN Runes(<<"0", ".", "0", "0">>)
             ELSE FormatFixed2(amount.mant, amount.exp))

\* converter.formatDateTime: t.Format("2006-01-02 15:04:05")
formatDateTime(t) ==
  Pad(t.year, 4) \o Runes(<<"-">>) \o Pad(t.month, 2) \o Runes(<<"-">>) \o Pad(t.day, 2)
    \o Runes(<<" ">>) \o Pad(t.hour, 2) \o Runes(<<":">>) \o Pad(t.min, 2)
    \o Runes(<<":">>) \o Pad(t.sec, 2)

\* strings.Join(parts, " - ")
RECURSIVE Join(_)
Join(parts) ==
  IF parts = <<>> THEN <<>>
  ELSE IF Len(parts) = 1 THEN parts[1]
  ELSE parts[1] \o Runes(<<" ", "-", " ">>) \o Join(Tail(parts))

\* converter.buildDescription
buildDescription(kh) ==
  Join((IF kh.PartnerName /= <<>> THEN <<kh.PartnerName>> ELSE <<>>)
       \o (IF kh.Type /= <<>> THEN << Runes(<<"(">>) \o kh.Type \o Runes(<<")">>) >> ELSE <<>>)
       \o (IF kh.Description /= <<>> /\ kh.Description /= kh.PartnerName
           THEN <<kh.Description>> ELSE <<>>))

EzBookTransaction(type, category, subCategory, account, amount, dateTime, description) ==
  [Type |-> type, Category |-> category, SubCategory |-> subCategory,
   Account |-> account, Amount |-> amount, DateTime |-> dateTime,
   Description |-> description, Tags |-> <<>>]

NoTransaction ==
  EzBookTransaction(<<>>, <<>>, <<>>, <<>>, <<>>, <<>>, <<>>)

\* What convertSingle ends with: kind "ok" and the transaction, kind
\* "error" and the error, or kind "panic" (Categorize panicked)
SingleResult(kind, err, ez) == [kind |-> kind, err |-> err, ez |-> ez]

\* Variant of convertSingle: an empty subcategory is kept
convertSingle_NoDefault(kh, config, accountName, order1, order2) ==
  LET date == ParseDate(kh.Date)
      amount == parseAmount(kh.Amount)
  IN  IF ~date.ok THEN SingleResult("error", "invalid date format", NoTransaction)
      ELSE IF ~amount.ok THEN SingleResult("error", "invalid amount", NoTransaction)
      ELSE LET transactionType ==
                 IF GreaterThanZero(amount.f) THEN C_Income ELSE C_Expense
               cat == Categorize(kh.PartnerName, kh.Type, config, order1, order2)
           IN  IF cat.kind = "panic" THEN SingleResult("panic", "", NoTransaction)
               ELSE SingleResult("ok", "",
                      EzBookTransaction(transactionType, cat.category,
                                        cat.subCategory, accountName,
                                        formatAmount(Abs(amount.f)),
                                        formatDateTime(date.t),
                                        buildDescription(kh)))

\* convertSingle from the call of Categorize on: transactionType is the
\* type the amount gave, cat what Categorize returned
convertCategorized(kh, accountName, date, amount, transactionType, cat) ==
  IF cat.kind = "panic" THEN SingleResult("panic", "", NoTransaction)
  ELSE SingleResult("ok", "",
         EzBookTransaction(transactionType, cat.category,
                           IF cat.subCategory = <<>>
                           THEN (IF transactionType = C_Expense
                                 THEN C_OtherExpense ELSE C_OtherIncome)
                           ELSE cat.subCategory,
                           accountName, formatAmount(Abs(amount.f)),
                           formatDateTime(date.t), buildDescription(kh)))

\* convertSingle on what ParseDate (date) and parseAmount (amount) returned
convertParsed(kh, config, accountName, order1, order2, date, amount) ==
  IF ~date.ok THEN SingleResult("error", "invalid date format", NoTransaction)
  ELSE IF ~amount.ok THEN SingleResult("error", "invalid amount", NoTransaction)
  ELSE convertCategorized(kh, accountName, date, amount,
                          IF GreaterThanZero(amount.f) THEN C_Income
                          ELSE C_Expense,
                          Categorize(kh.PartnerName, kh.Type, config,
                                     order1, order2))

\* Converter.convertSingle(kh); order1, order2: see Categorize
convertSingle(kh, config, accountName, order1, order2) ==
  convertParsed(kh, config, accountName, order1, order2,
                ParseDate(kh.Date), parseAmount(kh.Amount))

ConvertResult(panic, ezTransactions, errors) ==
  [panic |-> panic, ezTransactions |-> ezTransactions, errors |-> errors]

\* Converter.Convert: the loop from transaction i on; orders[i] is the
\* pair of iteration orders of the i-th call of Categorize.  An error is
\* recorded as the transaction's id and the error's text.  ConvertNext is
\* the loop's body on r, what convertSingle made of transaction i.
RECURSIVE ConvertLoop(_, _, _, _, _, _, _)
ConvertNext(khTransactions, config, accountName, orders, i, ezTransactions, errors, r) ==
  IF r.kind = "panic" THEN ConvertResult(TRUE, ezTransactions, errors)
  ELSE IF r.kind = "error"
  THEN ConvertLoop(khTransactions, config, accountName, orders, i + 1,
                   ezTransactions,
                   Append(errors, [id |-> khTransactions[i].TransactionID,
                                   err |-> r.err]))
  ELSE ConvertLoop(khTransactions, config, accountName, orders, i + 1,
                   Append(ezTransactions, r.ez), errors)

ConvertLoop(khTransactions, config, accountName, orders, i, ezTransactions, errors) ==
  IF i > Len(khTransactions) THEN ConvertResult(FALSE, ezTransactions, errors)
  ELSE ConvertNext(khTransactions, config, accountName, orders, i,
                   ezTransactions, errors,
                   convertSingle(khTransactions[i], config, accountName,
                                 orders[i][1], orders[i][2]))

\* Variant of Convert: the loop ends at the first transaction that fails
Convert_StopAtError(khTransactions, config, accountName, orders) ==
  LET all == ConvertLoop(khTransactions, config, accountName, orders, 1, <<>>, <<>>)
      failed == { i \in 1..Len(khTransactions) :
                    convertSingle(khTransactions[i], config, accountName,
                                  orders[i][1], orders[i][2]).kind = "error" }
      first == CHOOSE i \in failed : \A j \in failed : i <= j
  IN  IF failed = {} THEN all
      ELSE ConvertLoop(SubSeq(khTransactions, 1, first), config, accountName,
                       orders, 1, <<>>, <<>>)

Convert(khTransactions, config, accountName, orders) ==
  ConvertLoop(khTransactions, config, accountName, orders, 1, <<>>, <<>>)

\* header := []string{...} of WriteCSV: the 14 column names
CsvHeader ==
  <<Ascii("Time"), Ascii("Timezone"), Ascii("Type"), Ascii("Category"),
    Ascii("Sub Category"), Ascii("Account"), Ascii("Account Currency"),
    Ascii("Amount"), Ascii("Account2"), Ascii("Account2 Currency"),
    Ascii("Account2 Amount"), Ascii("Geographic Location"), Ascii("Tags"),
    Ascii("Description")>>

\* record := []string{...} of WriteCSV for the transaction t
CsvRecord(t) ==
  <<t.DateTime, C_Timezone, t.Type, t.Category, t.SubCategory,
    t.Account, C_HUF, t.Amount, <<>>, <<>>, <<>>, <<>>, t.Tags,
    t.Description>>

\* The bufio.Writer of csv.NewWriter(writer), on the output file.  n: the
\* bytes buffered; failed: err is set, and every later write returns it;
\* wrote: the bytes the file has accepted; room: the bytes the file
\* accepts in all before its writes fail (Unlimited: none fails).
BufSize == 4096

Unlimited == -1

NewWriter(room) == [n |-> 0, failed |-> FALSE, wrote |-> 0, room |-> room]

\* The file's Write of k bytes: the bytes it accepts; fewer than k is an
\* error
Accepted(w, k) ==
  IF w.room = Unlimited \/ w.wrote + k <= w.room THEN k
  ELSE w.room - w.wrote

\* bufio.Writer.Flush, the file accepting a of the n bytes buffered
FlushAccepted(w, a) ==
  IF a < w.n THEN [w EXCEPT !.wrote = @ + a, !.n = @ - a, !.failed = TRUE]
  ELSE [w EXCEPT !.wrote = @ + a, !.n = 0]

Flush(w) ==
  IF w.failed \/ w.n = 0 THEN w ELSE FlushAccepted(w, Accepted(w, w.n))

\* bufio.Writer.WriteByte: an error when w.failed afterwards
PutByte(w) == IF w.failed THEN w ELSE [w EXCEPT !.n = @ + 1]

WriteByte(w) ==
  IF w.failed THEN w
  ELSE IF BufSize - w.n <= 0 THEN PutByte(Flush(w))
  ELSE PutByte(w)

\* bufio.Writer.WriteString of a string of k bytes: while the string is
\* longer than the room of the buffer, the buffer is filled and flushed,
\* or, the buffer being empty, the string is handed to the file (an
\* *os.File is an io.StringWriter), which accepts a bytes of it
RECURSIVE WriteString(_, _)
WriteDirect(w, k, a) ==
  WriteString([w EXCEPT !.wrote = @ + a, !.failed = a < k], k - a)

WriteString(w, k) ==
  IF k > BufSize - w.n /\ ~w.failed
  THEN (IF w.n = 0 THEN WriteDirect(w, k, Accepted(w, k))
        ELSE WriteString(Flush([w EXCEPT !.n = BufSize]),
                         k - (BufSize - w.n)))
  ELSE IF w.failed THEN w
  ELSE [w EXCEPT !.n = @ + k]

\* csv.Writer.fieldNeedsQuotes(field), the delimiter being the comma
fieldNeedsQuotes(field) ==
  /\ field /= <<>>
  /\ \/ field = Runes(<<"\\", ".">>)
     \/ \E i \in 1..Len(field) :
          field[i] \in {Rune("\n"), Rune("\r"), Rune("\""), Rune(",")}
     \/ field[1] \in SpaceRunes

\* strings.IndexAny(field, "\"\r\n") from rune i on: the index of the first
\* of the three runes, Len(field) + 1 when there is none
RECURSIVE IndexSpecial(_, _)
IndexSpecial(field, i) ==
  IF i > Len(field) \/ field[i] \in {Rune("\""), Rune("\r"), Rune("\n")}
  THEN i ELSE IndexSpecial(field, i + 1)

\* The special rune of a quoted field: a quote is written twice, \r and
\* \n as they are (UseCRLF is false)
WriteSpecial(w, r) == IF r = Rune("\"") THEN WriteString(w, 2) ELSE WriteByte(w)

\* The loop of csv.Writer.Write over a quoted field, from rune i on: the
\* runes before the next special rune (at j) verbatim, then that rune.  A
\* write after one that failed changes nothing and fails again: the loop
\* returns the error at the first write that fails.
RECURSIVE WriteQuoted(_, _, _)
WriteQuotedTo(w, field, i, j) ==
  IF j > Len(field) THEN WriteString(w, ByteLen(SubSeq(field, i, j - 1)))
  ELSE WriteQuoted(WriteSpecial(WriteString(w, ByteLen(SubSeq(field, i, j - 1))),
                                field[j]),
                   field, j + 1)

WriteQuoted(w, field, i) ==
  IF i > Len(field) THEN w
  ELSE WriteQuotedTo(w, field, i, IndexSpecial(field, i))

\* One field of csv.Writer.Write, after the comma that precedes it
WriteField(w, field) ==
  IF ~fieldNeedsQuotes(field) THEN WriteString(w, ByteLen(field))
  ELSE WriteByte(WriteQuoted(WriteByte(w), field, 1))

\* csv.Writer.Write(record), from field n on, and the line feed
RECURSIVE WriteFields(_, _, _)
WriteFields(w, record, n) ==
  IF n > Len(record) THEN WriteByte(w)
  ELSE WriteFields(WriteField(IF n > 1 THEN WriteByte(w) ELSE w, record[n]),
                   record, n + 1)

\* The loop of WriteCSV over the transactions i to n; it returns at the
\* first csvWriter.Write that returns an error (the header's included).
\* The loop is taken in halves, which keeps the evaluation shallow.
RECURSIVE WriteRecords(_, _, _, _)
WriteRecords(w, transactions, i, n) ==
  IF w.failed \/ i > n THEN w
  ELSE IF i < n
  THEN WriteRecords(WriteRecords(w, transactions, i, (i + n) \div 2),
                    transactions, (i + n) \div 2 + 1, n)
  ELSE WriteFields(w, CsvRecord(transactions[i]), 1)

\* WriteCSV's return on the writer w its last Write left: the error of
\* that Write, and the deferred csvWriter.Flush(), whose error is dropped
WriteCSVResult(w) ==
  [err |-> IF w.failed THEN "write" ELSE "", bytes |-> Flush(w).wrote]

\* converter.WriteCSV(writer, transactions), the writer being a file that
\* accepts room bytes: the error returned and the bytes the file holds
WriteCSV(room, transactions) ==
  WriteCSVResult(WriteRecords(WriteFields(NewWriter(room), CsvHeader, 1),
                              transactions, 1, Len(transactions)))

---------------------------------------------------------------------------
(* cmd                                                                     *)

\* The bytes of the header line and the first k records of WriteCSV
LinesBytes(transactions, k) ==
  WriteCSV(Unlimited, SubSeq(transactions, 1, k)).bytes

\* The output file: not created, or created and holding bytes bytes, of
\* which header and rows are the records written whole (the header, and the
\* records of the transactions)
NotCreated == [created |-> FALSE, bytes |-> 0, header |-> <<>>, rows |-> <<>>]

Created(bytes, transactions) ==
  [created |-> TRUE, bytes |-> bytes,
   header |-> IF LinesBytes(transactions, 0) <= bytes THEN CsvHeader ELSE <<>>,
   rows |-> <<>> \o
     [i \in 1..Cardinality({ k \in 1..Len(transactions) :
                               LinesBytes(transactions, k) <= bytes }) |->
        CsvRecord(transactions[i])]]

\* What a run of ConvertCmd ends with: err is "" (nil), the error returned
\* or "panic"; config is the *Config the command holds (cfg); parsed,
\* converted and errors count the transactions parsed, converted and
\* failed (-1: the step was not reached); ezTransactions is what Convert
\* returned (<<>> when it was not reached); output is the output file.
CmdResult(err, config, parsed, converted, errors, ezTransactions, output) ==
  [err |-> err, config |-> config, parsed |-> parsed,
   converted |-> converted, errors |-> errors,
   ezTransactions |-> ezTransactions, output |-> output]

\* ConvertCmd from os.Create on: conv is what Convert returned, written
\* what WriteCSV returned
ConvertCmdWritten(config, parsed, conv, written) ==
  CmdResult(IF written.err /= "" THEN "failed to write CSV" ELSE "",
            config, parsed, Len(conv.ezTransactions), Len(conv.errors),
            conv.ezTransactions,
            Created(written.bytes, conv.ezTransactions))

\* ConvertCmd from the call of Convert on
ConvertCmdConverted(config, parsed, conv, creatable, room) ==
  IF conv.panic
  THEN CmdResult("panic", config, parsed, -1, -1, <<>>, NotCreated)
  ELSE IF ~creatable
  THEN CmdResult("failed to create output file", config, parsed,
                 Len(conv.ezTransactions), Len(conv.errors),
                 conv.ezTransactions, NotCreated)
  ELSE ConvertCmdWritten(config, parsed, conv,
                         WriteCSV(room, conv.ezTransactions))

\* ConvertCmd from the call of ParseKHExport on
ConvertCmdParsed(config, kh, creatable, room, accountName, orders) ==
  IF kh.err /= ""
  THEN CmdResult("failed to parse K&H export", config, -1, -1, -1, <<>>,
                 NotCreated)
  ELSE ConvertCmdConverted(config, Len(kh.transactions),
                           Convert(kh.transactions, config, accountName,
                                   orders),
                           creatable, room)

\* ConvertCmd after loadConfigOrDefault, which returned load
ConvertCmdLoaded(load, input, creatable, room, accountName, orders) ==
  IF load.err /= ""
  THEN CmdResult("failed to load config", load.config, -1, -1, -1, <<>>,
                 NotCreated)
  ELSE IF input.kind = "absent"
  THEN CmdResult("failed to open input file", load.config, -1, -1, -1, <<>>,
                 NotCreated)
  ELSE ConvertCmdParsed(load.config, ParseKHExport(input), creatable, room,
                        accountName, orders)

\* cmd.ConvertCmd(inputPath, outputPath, accountName, configPath):
\* hasPath and file describe configPath, input the file at inputPath
\* (kind "absent": os.Open fails), creatable whether os.Create(outputPath)
\* succeeds and room the bytes the file created accepts; orders: see
\* Convert.
ConvertCmd(hasPath, file, input, creatable, room, accountName, orders) ==
  ConvertCmdLoaded(loadConfigOrDefault(hasPath, file), input, creatable, room,
                   accountName, orders)

\* fmt.Scanln(&ownerName) on the line the operator types (without its
\* newline): leading spaces are skipped and the first space-separated
\* token is stored; what follows the token makes Scanln return an error
\* that the command ignores.
RECURSIVE SkipSpace(_)
SkipSpace(s) ==
  IF s /= <<>> /\ s[1] \in SpaceRunes THEN SkipSpace(Tail(s)) ELSE s

RECURSIVE Token(_)
Token(s) ==
  IF s = <<>> \/ s[1] \in SpaceRunes THEN <<>>
  ELSE <<s[1]>> \o Token(Tail(s))

Scanln(line) == Token(SkipSpace(line))

\* The transactions with a partner name, of which UpdateConfigCmd takes
\* partnerNames and transactionTypes
HasPartnerName(t) == t.PartnerName /= <<>>

\* partnerTypeMap: for each partner the type of its last transaction;
\* partnerTypeMap[partner] of a missing key is ""
partnerTypeMap(partnerNames, transactionTypes, partner) ==
  LET at == { i \in 1..Len(partnerNames) : partnerNames[i] = partner }
  IN  IF at = {} THEN <<>>
      ELSE transactionTypes[CHOOSE i \in at : \A j \in at : j <= i]

\* The helper "add" of the prompt template
add(a, b) == a + b + 1

\* Variant of PromptGroup: the Original names are listed
PromptGroup_Original(anonymized, types, personal) ==
  LET in(r) == IF personal THEN r.DetectionType \in types
               ELSE r.DetectionType \notin types
      group == SelectSeq(anonymized, in)
  IN  [i \in 1..Len(group) |-> group[i].Original]

\* The Anonymized names of the results whose detection type is in types
\* (personal), or is in none of the three cases of the switch (~personal)
PromptGroup(anonymized, types, personal) ==
  LET in(r) == IF personal THEN r.DetectionType \in types
               ELSE r.DetectionType \notin types
      group == SelectSeq(anonymized, in)
  IN  [i \in 1..Len(group) |-> group[i].Anonymized]

\* One entry of the list NEW UNCATEGORIZED MERCHANTS: its number, its
\* text, whether it is a placeholder group and, for a group, the
\* occurrences shown
PromptEntry(number, text, group, occurrences) ==
  [number |-> number, text |-> text, group |-> group,
   occurrences |-> occurrences]

\* llmPromptTemplate executed on data: the list NEW UNCATEGORIZED MERCHANTS
PromptList(data) ==
  (IF Len(data.OwnerNames) > 0
   THEN <<PromptEntry(data.OwnerNamesIndex, R_OWNER_NAME, TRUE,
                      Len(data.OwnerNames))>>
   ELSE <<>>)
  \o (IF Len(data.TransferPartners) > 0
      THEN <<PromptEntry(data.TransferPartnersIndex, R_TRANSFER_PARTNER, TRUE,
                         Len(data.TransferPartners))>>
      ELSE <<>>)
  \o (IF Len(data.AccountNumbers) > 0
      THEN <<PromptEntry(data.AccountNumbersIndex, R_ACCOUNT_NUMBER, TRUE,
                         Len(data.AccountNumbers))>>
      ELSE <<>>)
  \o [i \in 1..Len(data.Businesses) |->
        PromptEntry(add(i - 1, data.BusinessStartIndex), data.Businesses[i],
                    FALSE, 0)]

\* What generateLLMPrompt prints: nothing, or the template data and the list
NoPrompt == [printed |-> FALSE, data |-> <<>>, list |-> <<>>]

Prompt(data) == [printed |-> TRUE, data |-> data, list |-> PromptList(data)]

\* Variant of generateLLMPrompt: the account numbers are left out of
\* AnonymizedCount and the placeholders are listed among the businesses
generateLLMPrompt_Miscounted(config, anonymized) ==
  LET ownerNames == PromptGroup(anonymized, {"owner_name"}, TRUE)
      transferPartners == PromptGroup(anonymized, {"transfer_partner"}, TRUE)
      accountNumbers == PromptGroup(anonymized, {"account_number"}, TRUE)
      businesses == PromptGroup(anonymized, {"owner_name"}, FALSE)
      ownerNamesIndex == IF Len(ownerNames) > 0 THEN 1 ELSE 0
      idx2 == IF Len(ownerNames) > 0 THEN 2 ELSE 1
      transferPartnersIndex == IF Len(transferPartners) > 0 THEN idx2 ELSE 0
      idx3 == IF Len(transferPartners) > 0 THEN idx2 + 1 ELSE idx2
      accountNumbersIndex == IF Len(accountNumbers) > 0 THEN idx3 ELSE 0
      idx4 == IF Len(accountNumbers) > 0 THEN idx3 + 1 ELSE idx3
  IN  Prompt([CurrentConfig |-> config,
              OwnerNames |-> ownerNames,
              TransferPartners |-> transferPartners,
              AccountNumbers |-> accountNumbers,
              Businesses |-> businesses,
              OwnerNamesIndex |-> ownerNamesIndex,
              TransferPartnersIndex |-> transferPartnersIndex,
              AccountNumbersIndex |-> accountNumbersIndex,
              BusinessStartIndex |-> idx4,
              TotalMerchants |-> Len(anonymized),
              AnonymizedCount |-> Len(ownerNames) + Len(transferPartners)])

\* cmd.generateLLMPrompt(cfg, anonymized); idx2, idx3, idx4 are idx after
\* each of the three tests.  (yaml.Marshal of a Config does not fail.)
generateLLMPrompt(config, anonymized) ==
  LET ownerNames == PromptGroup(anonymized, {"owner_name"}, TRUE)
      transferPartners == PromptGroup(anonymized, {"transfer_partner"}, TRUE)
      accountNumbers == PromptGroup(anonymized, {"account_number"}, TRUE)
      businesses ==
        PromptGroup(anonymized,
                    {"owner_name", "transfer_partner", "account_number"}, FALSE)
      ownerNamesIndex == IF Len(ownerNames) > 0 THEN 1 ELSE 0
      idx2 == IF Len(ownerNames) > 0 THEN 2 ELSE 1
      transferPartnersIndex == IF Len(transferPartners) > 0 THEN idx2 ELSE 0
      idx3 == IF Len(transferPartners) > 0 THEN idx2 + 1 ELSE idx2
      accountNumbersIndex == IF Len(accountNumbers) > 0 THEN idx3 ELSE 0
      idx4 == IF Len(accountNumbers) > 0 THEN idx3 + 1 ELSE idx3
  IN  Prompt([CurrentConfig |-> config,
              OwnerNames |-> ownerNames,
              TransferPartners |-> transferPartners,
              AccountNumbers |-> accountNumbers,
              Businesses |-> businesses,
              OwnerNamesIndex |-> ownerNamesIndex,
              TransferPartnersIndex |-> transferPartnersIndex,
              AccountNumbersIndex |-> accountNumbersIndex,
              BusinessStartIndex |-> idx4,
              TotalMerchants |-> Len(anonymized),
              AnonymizedCount |-> Len(ownerNames) + Len(transferPartners)
                                    + Len(accountNumbers)])

\* What a run of UpdateConfigCmd ends with: err as for ConvertCmd, config
\* the *Config the command holds when it returns, anonymized the results of
\* Anonymize, prompt what was printed
UpdateResult(err, config, anonymized, prompt) ==
  [err |-> err, config |-> config, anonymized |-> anonymized,
   prompt |-> prompt]

\* What UpdateConfigCmd holds when it has printed the question for the
\* owner name and waits in fmt.Scanln, or has returned before: returned
\* and err say whether and how it returned, config is the *Config it
\* loaded, partnerNames and transactionTypes are taken from the
\* transactions with a partner name, uncategorized is what
\* GetUncategorizedPartners returned
UpdateAsked(returned, err, config, partnerNames, transactionTypes, uncategorized) ==
  [returned |-> returned, err |-> err, config |-> config,
   partnerNames |-> partnerNames, transactionTypes |-> transactionTypes,
   uncategorized |-> uncategorized]

\* UpdateConfigCmd up to the question for the owner name: the
\* configuration is loaded, the export parsed, the partners without a
\* category found
UpdateConfigCmdAsked(hasPath, file, input) ==
  LET load == loadConfigOrDefault(hasPath, file)
      kh == ParseKHExport(input)
      named == SelectSeq(kh.transactions, HasPartnerName)
      partnerNames == [i \in 1..Len(named) |-> named[i].PartnerName]
      transactionTypes == [i \in 1..Len(named) |-> named[i].Type]
      uncategorized == GetUncategorizedPartners(partnerNames, load.config)
  IN  IF load.err /= ""
      THEN UpdateAsked(TRUE, "failed to load config", load.config,
                       <<>>, <<>>, <<>>)
      ELSE IF input.kind = "absent"
      THEN UpdateAsked(TRUE, "failed to open input file", load.config,
                       <<>>, <<>>, <<>>)
      ELSE IF kh.err /= ""
      THEN UpdateAsked(TRUE, "failed to parse K&H export", load.config,
                       <<>>, <<>>, <<>>)
      ELSE IF Len(uncategorized) = 0
      THEN UpdateAsked(TRUE, "", load.config, <<>> \o partnerNames,
                       <<>> \o transactionTypes, uncategorized)
      ELSE UpdateAsked(FALSE, "", load.config, <<>> \o partnerNames,
                       <<>> \o transactionTypes, uncategorized)

\* Variant of UpdateConfigCmdAnswered: the unknown partners are added to
\* the known partners of the configuration
UpdateConfigCmdAnswered_AddsKnown(config, partnerNames, transactionTypes, uncategorized, line) ==
  LET anonCfg == AnonConfig(TrimSpace(Scanln(line)))
      anonymized ==
        [i \in 1..Len(uncategorized) |->
           Anonymize(uncategorized[i],
                     partnerTypeMap(partnerNames, transactionTypes,
                                    uncategorized[i]),
                     anonCfg)]
      added == [config EXCEPT !.KnownPartners = @ \o uncategorized]
  IN  UpdateResult("", added, anonymized,
                   generateLLMPrompt(added, anonymized))

\* UpdateConfigCmd from the line the operator types at the owner name
\* question on: the names are anonymized and the prompt is printed
UpdateConfigCmdAnswered(config, partnerNames, transactionTypes, uncategorized, line) ==
  LET anonCfg == AnonConfig(TrimSpace(Scanln(line)))
      anonymized ==
        [i \in 1..Len(uncategorized) |->
           Anonymize(uncategorized[i],
                     partnerTypeMap(partnerNames, transactionTypes,
                                    uncategorized[i]),
                     anonCfg)]
  IN  UpdateResult("", config, anonymized,
                   generateLLMPrompt(config, anonymized))

\* What UpdateConfigCmd returns when it returns before it asks
UpdateConfigCmdReturned(asked) ==
  UpdateResult(asked.err, asked.config, <<>>, NoPrompt)

\* cmd.UpdateConfigCmd(inputPath, configPath): hasPath, file and input as
\* for ConvertCmd, line the line the operator types at the owner name
\* question (not read when the command returns before it asks)
UpdateConfigCmdFrom(asked, line) ==
  IF asked.returned THEN UpdateConfigCmdReturned(asked)
  ELSE UpdateConfigCmdAnswered(asked.config, asked.partnerNames,
                               asked.transactionTypes, asked.uncategorized,
                               line)

UpdateConfigCmd(hasPath, file, input, line) ==
  UpdateConfigCmdFrom(UpdateConfigCmdAsked(hasPath, file, input), line)

---------------------------------------------------------------------------
(* The inputs of the model.                                                *)

\* Bounds
MaxCategories == 2
MaxPartners == 3

\* Counterparty names
N_ALDI241 == Runes(<<"A","L","D","I"," ","2","4","1",".","S","Z",".">>)
N_AldiMol == Runes(<<"A","l","d","i"," ","M","o","l">>)
N_MOL == Runes(<<"M","O","L">>)
N_ALDI == Runes(<<"A","L","D","I">>)
N_Unknown == Runes(<<"U","n","k","n","o","w","n"," ","S","h","o","p">>)
N_Vigh == Runes(<<"V","i","g","h"," ","D","a","n","i","e","l">>)
N_VIGH == Runes(<<"V","I","G","H"," ","D","A","N","I","E","L">>)
N_vigh == Runes(<<"v","i","g","h"," ","d","a","n","i","e","l">>)
N_VighSpaced == Runes(<<" ","V","i","g","h"," ","D","a","n","i","e","l"," ">>)
N_blank == Runes(<<" "," ">>)
N_tab == Runes(<<"\t"," ">>)
N_nbsp == <<NBSP, Rune("\f")>>
N_Benzinku ==
  Runes(<<"S","Z","E","G","E","D"," ","B","E","N","Z","I","N","K","U'"," ","T"," ",
    "A","U","T",".">>)
N_Szucs == Runes(<<"S","z","u\"","c","s"," ","A","n","n","a">>)
N_SZUCS == Runes(<<"S","Z","U\"","C","S"," ","A","N","N","A">>)
N_Kovacs == Runes(<<"K","o","v","a'","c","s">>)
N_SENOR ==
  Runes(<<"E","L"," ","S","E","N?","O","R"," ","M","A","R","K","E","T">>)
N_SKODA == Runes(<<"S<","K","O","D","A"," ","S","Z","E","G","E","D">>)
N_PENA == Runes(<<"P","E","N?","A">>)
N_pena == Runes(<<"p","e","n?","a">>)
N_STRASSE == Runes(<<"S","T","R","A">>) \o <<CapitalSharpS>> \o Runes(<<"E">>)
N_strasse == Runes(<<"s","t","r","a","ss","e">>)
N_DottedIKEA == <<DottedI>> \o Runes(<<"K","E","A">>)
N_ikea == Runes(<<"i","k","e","a">>)
N_KelvinOVACS == <<KelvinSign>> \o Runes(<<"O","V","A'","C","S">>)

\* "HU" and n digits
Account(n) == Runes(<<"H","U">>) \o [i \in 1..n |-> DigitRunes[(i % 10) + 1]]

\* Keywords
K_aldi == Runes(<<"a","l","d","i">>)
K_mol == Runes(<<"m","o","l">>)
K_MOL == Runes(<<"M","O","L">>)
K_benzinku == Runes(<<"b","e","n","z","i","n","k","u'">>)
K_senor == Runes(<<"s","e","n?","o","r">>)
K_SKODA == Runes(<<"S<","K","O","D","A">>)

\* Transaction type labels
T_Purchase == Runes(<<"P","u","r","c","h","a","s","e">>)
T_Jovairas == Runes(<<"J","o'","v","a'","i'","r","a'","s">>)
T_fizetes_hitel ==
  Runes(<<"f","i","z","e","t","e'","s"," ","h","i","t","e","l"," ","t","o:","r",
    "l","e","s","z","t","e'","s">>)
T_Hitel_keszpenz ==
  Runes(<<"H","i","t","e","l"," ","t","o:","r","l","e","s","z","t","e'","s"," ",
    "k","e'","s","z","p","e'","n","z">>)
T_keszpenz_dij == Runes(<<"k","e'","s","z","p","e'","n","z"," ","d","i'","j">>)
T_KOLTSEG == Runes(<<"K","O:","L","T","S","E'","G">>)
T_Atutalas == Runes(<<"A'","t","u","t","a","l","a'","s">>)
T_ATVEZETES_dij == Runes(<<"A'","T","V","E","Z","E","T","E'","S"," ","d","i'","j">>)

PartnerNames ==
  {N_ALDI241, N_AldiMol, N_MOL, N_Unknown, N_Benzinku, N_SENOR, N_SKODA,
   N_DottedIKEA, <<>>}

TypeLabels ==
  {T_Purchase, T_Jovairas, T_fizetes_hitel, T_Hitel_keszpenz, T_keszpenz_dij,
   T_KOLTSEG, T_Atutalas, T_ATVEZETES_dij, <<>>}

\* The categories of a configuration document
DocCategory(null, subcategory, keywords, exact_matches) ==
  [null |-> null, subcategory |-> subcategory, keywords |-> keywords,
   exact_matches |-> exact_matches]

DC_Food == DocCategory(FALSE, <<C_Food>>, <<K_aldi, N_ikea>>, <<N_ALDI241>>)
DC_Transit ==
  DocCategory(FALSE, <<C_PublicTransit>>, <<K_MOL, K_benzinku, K_SKODA>>, <<>>)
DC_NoSub == DocCategory(FALSE, <<>>, <<K_mol, K_senor>>, <<N_ALDI241>>)
DC_EmptySub == DocCategory(FALSE, << <<>> >>, <<>>, <<N_MOL>>)
DC_Null == DocCategory(TRUE, <<>>, <<>>, <<>>)

DocCategories == {DC_Food, DC_Transit, DC_NoSub, DC_EmptySub, DC_Null}

AllCategoryNames ==
  <<C_FoodDrink, C_Transportation, C_Shopping, C_MedicalHealthcare>>

CategoryNames ==
  { AllCategoryNames[i] : i \in 1..MaxCategories } \cap
  { AllCategoryNames[i] : i \in 1..Len(AllCategoryNames) }

\* Every mapping of at most MaxCategories category names
CategoryMaps == UNION { [S -> DocCategories] : S \in SUBSET CategoryNames }

\* Names of the novelty detector's inputs, and known_partners lists
P_A == Runes(<<"A">>)
P_B == Runes(<<"B">>)
P_C == Runes(<<"C">>)
P_Cspaced == <<NBSP>> \o Runes(<<"C"," ","\f">>)

KnownLists == { <<>>, <<P_B>> }

Docs ==
  { [known_partners |-> k, categories |-> c] : k \in KnownLists, c \in CategoryMaps }

ConfigFiles ==
  { File("absent", EmptyDoc), File("unreadable", EmptyDoc),
    File("malformed", EmptyDoc) } \cup { File("yaml", d) : d \in Docs }

UncategorizedInputs == {P_A, P_B, P_C, P_Cspaced, <<>>}

\* Names given to AddKnownPartner and IsKnownPartner
P_b == Runes(<<"b">>)

KnownInputs == {P_A, P_B, P_b, P_Cspaced}

\* Every sequence over S of length at most n
SeqsUpTo(S, n) == UNION { [1..k -> S] : k \in 0..n }

\* Inputs of Anonymize
MerchantNames ==
  { N_Vigh, N_VIGH, N_VighSpaced, N_ALDI, <<>>, N_blank, N_tab, N_nbsp,
    N_SZUCS, N_KelvinOVACS, N_PENA, N_STRASSE, N_DottedIKEA,
    R_TRANSFER_PARTNER,
    Account(AccountMinDigits) \o <<NBSP>>,
    Account(AccountMinDigits), Account(AccountMinDigits - 1),
    Account(AccountMaxDigits), Account(AccountMaxDigits + 1),
    Runes(<<" ">>) \o Account(AccountMinDigits),
    ToLower(Account(AccountMinDigits)) }

AnonTypeLabels == {T_Purchase, T_Jovairas, T_Atutalas, T_ATVEZETES_dij, <<>>}

AnonConfigs ==
  { NilAnonConfig, AnonConfig(<<>>), AnonConfig(N_Vigh), AnonConfig(N_vigh),
    AnonConfig(N_blank), AnonConfig(N_Szucs), AnonConfig(N_Kovacs),
    AnonConfig(N_pena), AnonConfig(N_strasse), AnonConfig(N_ikea),
    AnonConfig(Account(AccountMinDigits)) }

\* The rows of a K&H export
D_20240115 == Runes(<<"2","0","2","4",".","0","1",".","1","5">>)
D_leap_time ==
  Runes(<<"2","0","2","4",".","0","2",".","2","9"," ","1","0",":","3","0",":","0",
    "0">>)
D_spaces_hour ==
  Runes(<<"2","0","2","4",".","0","1",".","1","5"," "," "," ","9",":","0","5",":",
    "0","0">>)
D_nbsp == D_20240115 \o <<NBSP>>
D_nbsp_time ==
  D_20240115 \o <<NBSP>> \o Runes(<<"1","0",":","3","0",":","0","0">>)
D_dashes == Runes(<<"2","0","2","4","-","0","1","-","1","5">>)
D_feb29 == Runes(<<"2","0","2","3",".","0","2",".","2","9">>)
A_income == Runes(<<"1"," ","2","3","4",",","5","0">>)
A_expense == Runes(<<"-","5","0","0">>)
A_zero == Runes(<<"0">>)
A_bad == Runes(<<"a","b","c">>)
A_thousandths == Runes(<<"-","1"," ","2","3","4",",","5","6","7">>)
A_below_cent == Runes(<<"0",",","0","0","1">>)
A_tie == Runes(<<"0",",","1","2","5">>)
A_exponent == Runes(<<"1","e","3">>)
A_inf == Runes(<<"I","n","f">>)
A_nan == Runes(<<"N","a","N">>)
A_overflow == Runes(<<"-","1","e","4","0","0">>)
A_hex_overflow == Runes(<<"-","0","x","1","p","1","0","2","4">>)
A_nbsp == Runes(<<"1">>) \o <<NBSP>> \o Runes(<<"2","3","4">>)
S_HUF == Runes(<<"H","U","F">>)
S_groceries == Runes(<<"g","r","o","c","e","r","i","e","s">>)
S_quoted ==
  Runes(<<"s","a","y"," ","\"","a",","," ","b","\""," ","t","w","i","c","e">>)

\* A description of LongLen runes of two bytes each
LongLen == 1400

S_long == <<>> \o [i \in 1..LongLen |-> Rune("e'")]

Row(date, id, type, partner, amount, description) ==
  <<date, id, type, <<>>, <<>>, <<>>, partner, amount, S_HUF, description>>

HeaderRow == Row(Runes(<<"d">>), Runes(<<"i">>), Runes(<<"t">>), Runes(<<"p">>), Runes(<<"a">>), Runes(<<"k">>))

R_income == Row(D_20240115, Runes(<<"T","1">>), T_Jovairas, N_Unknown, A_income, <<>>)
R_expense ==
  Row(D_leap_time, Runes(<<"T","2">>), T_Purchase, N_ALDI241, A_expense, S_groceries)
R_zero == Row(D_20240115, Runes(<<"T","3">>), T_Purchase, N_AldiMol, A_zero, N_AldiMol)
R_baddate == Row(D_dashes, Runes(<<"T","4">>), T_Purchase, N_MOL, A_expense, <<>>)
R_feb29 == Row(D_feb29, Runes(<<"T","5">>), T_Purchase, N_MOL, A_expense, <<>>)
R_badamount == Row(D_20240115, Runes(<<"T","6">>), T_Purchase, N_MOL, A_bad, <<>>)
R_short == <<D_20240115, Runes(<<"T","7">>), T_Purchase>>
R_refund == Row(D_20240115, Runes(<<"T","8">>), T_Purchase, N_MOL, A_income, <<>>)

R_thousandths ==
  Row(D_spaces_hour, Runes(<<"T","9">>), T_Purchase, N_Benzinku, A_thousandths, <<>>)
R_below_cent ==
  Row(D_nbsp, Runes(<<"T","1","0">>), T_Purchase, N_MOL, A_below_cent, <<>>)
R_tie == Row(D_20240115, Runes(<<"T","1","1">>), T_Purchase, N_MOL, A_tie, <<>>)
R_exponent ==
  Row(D_20240115, Runes(<<"T","1","2">>), T_Purchase, N_MOL, A_exponent, <<>>)
R_inf == Row(D_20240115, Runes(<<"T","1","3">>), T_Purchase, N_MOL, A_inf, <<>>)
R_nan == Row(D_20240115, Runes(<<"T","1","4">>), T_Purchase, N_MOL, A_nan, <<>>)
R_nbsp_amount ==
  Row(D_20240115, Runes(<<"T","1","5">>), T_Purchase, N_MOL, A_nbsp, <<>>)
R_nbsp_time ==
  Row(D_nbsp_time, Runes(<<"T","1","6">>), T_Purchase, N_MOL, A_expense, <<>>)

R_overflow ==
  Row(D_20240115, Runes(<<"T","1","7">>), T_Purchase, N_MOL, A_overflow, <<>>)
R_hex_overflow ==
  Row(D_20240115, Runes(<<"T","1","8">>), T_Purchase, N_MOL, A_hex_overflow,
      <<>>)
R_senor ==
  Row(D_20240115, Runes(<<"T","1","9">>), T_Purchase, N_SENOR, A_expense,
      S_quoted)
R_long(id) == Row(D_leap_time, id, T_Purchase, N_SKODA, A_expense, S_long)

Input(kind, records) == [kind |-> kind, records |-> records]

InputFiles ==
  { Input("absent", <<>>), Input("csverror", <<>>),
    Input("records", <<HeaderRow>>),
    Input("records", <<HeaderRow, R_income, R_short, R_expense>>),
    Input("records", <<HeaderRow, R_zero, R_baddate, R_refund>>),
    Input("records", <<HeaderRow, R_badamount, R_feb29, R_expense>>),
    Input("records", <<HeaderRow, R_thousandths, R_nbsp_amount, R_below_cent>>),
    Input("records", <<HeaderRow, R_exponent, R_nbsp_time, R_tie>>),
    Input("records", <<HeaderRow, R_inf, R_nan>>),
    Input("records", <<HeaderRow, R_overflow, R_senor, R_hex_overflow>>),
    Input("records",
          <<HeaderRow, R_long(Runes(<<"L","1">>)), R_long(Runes(<<"L","2">>)),
            R_long(Runes(<<"L","3">>))>>) }

\* The output path of a run of ConvertCmd: a file that cannot be created,
\* or a file that accepts every byte, none, or RoomSome bytes
RoomSome == 5000

OutputFile(creatable, room) == [creatable |-> creatable, room |-> room]

OutputFiles ==
  { OutputFile(FALSE, 0), OutputFile(TRUE, Unlimited), OutputFile(TRUE, 0),
    OutputFile(TRUE, RoomSome) }

\* A category whose name and subcategory the csv.Writer quotes
C_Elelmiszer ==
  Runes(<<"E'","l","e","l","m","i","s","z","e","r",","," ","i","t","a","l">>)
S_Bolt == Runes(<<" ","\"","B","o","l","t","\"">>)
DC_Bolt == DocCategory(FALSE, <<S_Bolt>>, <<K_aldi, K_mol>>, <<>>)

\* The account names of the Converter
A_KH == Ascii("K&H")
A_KH_main == Ascii("K&H, main")
A_Foszamla == Runes(<<"F","o\"","s","z","a'","m","l","a">>)

AccountNames == {A_KH, A_KH_main, A_Foszamla}

\* The configuration files of the calls of Convert
ConvertDocs ==
  { [known_partners |-> <<>>, categories |-> <<>>],
    [known_partners |-> <<P_B>>,
     categories |-> [n \in {C_FoodDrink, C_Transportation} |->
                       IF n = C_FoodDrink THEN DC_Food ELSE DC_NoSub]],
    [known_partners |-> <<>>,
     categories |-> [n \in {C_FoodDrink, C_Transportation} |->
                       IF n = C_FoodDrink THEN DC_Transit ELSE DC_Null]],
    [known_partners |-> <<>>,
     categories |-> [n \in {C_Transportation} |-> DC_Transit]],
    [known_partners |-> <<>>,
     categories |-> [n \in {C_Elelmiszer} |-> DC_Bolt]] }

ConvertFiles ==
  { File("absent", EmptyDoc), File("unreadable", EmptyDoc),
    File("malformed", EmptyDoc) } \cup { File("yaml", d) : d \in ConvertDocs }

\* The exports of the runs of ConvertCmd, and the configuration files of
\* these runs and of a shared Categorizer
CmdInputs ==
  { Input("absent", <<>>), Input("csverror", <<>>),
    Input("records", <<HeaderRow>>),
    Input("records", <<HeaderRow, R_zero, R_baddate, R_refund>>),
    Input("records",
          <<HeaderRow, R_long(Runes(<<"L","1">>)), R_long(Runes(<<"L","2">>))>>) }

CmdDocs ==
  { [known_partners |-> <<>>, categories |-> <<>>],
    [known_partners |-> <<P_B>>,
     categories |-> [n \in {C_FoodDrink, C_Transportation} |->
                       IF n = C_FoodDrink THEN DC_Food ELSE DC_NoSub]],
    [known_partners |-> <<>>,
     categories |-> [n \in {C_FoodDrink} |-> DC_Null]],
    [known_partners |-> <<>>,
     categories |-> [n \in {C_Elelmiszer} |-> DC_Bolt]] }

CmdFiles ==
  { File("absent", EmptyDoc), File("unreadable", EmptyDoc),
    File("malformed", EmptyDoc) } \cup { File("yaml", d) : d \in CmdDocs }

\* The exports, the configuration files and the owner name lines of the
\* runs of UpdateConfigCmd
N_Kiss == Runes(<<"K","i","s","s"," ","A","n","n","a">>)
N_VIGHOnly == Runes(<<"V","I","G","H">>)
L_Vigh == Runes(<<"V","i","g","h">>)
L_VighPadded == Runes(<<" ","V","i","g","h"," ">>)

U_transfer(partner) ==
  Row(D_20240115, Runes(<<"U","1">>), T_Atutalas, partner, A_expense, <<>>)
U_purchase(partner) ==
  Row(D_20240115, Runes(<<"U","2">>), T_Purchase, partner, A_expense, <<>>)
U_credit(partner) ==
  Row(D_20240115, Runes(<<"U","3">>), T_Jovairas, partner, A_income, <<>>)

UpdateInputs ==
  { Input("absent", <<>>), Input("records", <<HeaderRow>>),
    Input("records", <<HeaderRow, U_purchase(N_ALDI), U_purchase(<<>>)>>),
    Input("records",
          <<HeaderRow, U_transfer(N_Kiss), U_purchase(N_ALDI),
            U_purchase(N_Kiss)>>),
    Input("records",
          <<HeaderRow, U_purchase(N_Kiss), U_purchase(N_Unknown),
            U_transfer(N_Kiss), U_credit(N_VIGHOnly),
            U_purchase(Account(AccountMinDigits)), U_purchase(N_ALDI)>>),
    Input("records",
          <<HeaderRow, U_credit(N_VIGHOnly), U_transfer(N_Kiss),
            U_purchase(N_VIGHOnly)>>),
    Input("records",
          <<HeaderRow, U_transfer(R_TRANSFER_PARTNER), U_purchase(N_ALDI)>>) }

UpdateDocs ==
  { [known_partners |-> <<>>, categories |-> <<>>],
    [known_partners |-> <<N_ALDI>>,
     categories |-> [n \in {C_FoodDrink} |-> DC_Food]] }

UpdateFiles ==
  { File("absent", EmptyDoc), File("malformed", EmptyDoc) }
    \cup { File("yaml", d) : d \in UpdateDocs }

OwnerLines == { <<>>, L_Vigh, L_VighPadded, N_Vigh }

---------------------------------------------------------------------------
(* The state machine.  cfg is the Config the process holds through the     *)
(* pointer loadConfigOrDefault returned (nil before), loaded the Config    *)
(* as loadConfigOrDefault returned it, last the last operation of the      *)
(* process with its inputs and its result, calls the number of calls it    *)
(* has made in a row on a shared Categorizer, pc where it is: "init"       *)
(* before the configuration is loaded, "ready" with a Categorizer built    *)
(* on cfg, "shared" when a second caller has the Categorizer too, "added"  *)
(* after a call of AddKnownPartner, "called" after a last call, "scanln"   *)
(* while the update-config command waits in fmt.Scanln for the line the    *)
(* operator types (last is then the operation "Scanln", with what the      *)
(* command holds), "exit" after a command returned or a call panicked.     *)
(* par is the second caller, in its one call of Categorize: "idle" before  *)
(* the call, "exact" between the two range loops of the method, "done"     *)
(* when it has returned.                                                   *)

Call(op, in, out) == [op |-> op, in |-> in, out |-> out]

NoCall == Call("none", <<>>, <<>>)

\* The calls a process makes in a row on a shared Categorizer
MaxCalls == 2

\* What a call ends with that a process makes while it holds the Config
\* config: out is what the call returns, config the Config when it returns
Ran(out, config) == [out |-> out, config |-> config]

\* c.Categorize(partnerName, transactionType) on the Categorizer c that
\* categorizer.New(config) returned: the method reads c.config
CategorizeRan(config, partnerName, transactionType, order1, order2) ==
  Ran(Categorize(partnerName, transactionType, config, order1, order2), config)

\* Variant of c.GetUncategorizedPartners: the names returned are added to
\* the known partners of c.config
GetUncategorizedPartnersRan_MarksKnown(config, partners) ==
  Ran(GetUncategorizedPartners(partners, config),
      [config EXCEPT !.KnownPartners =
                       @ \o GetUncategorizedPartners(partners, config)])

\* c.GetUncategorizedPartners(partners): the method reads c.config
GetUncategorizedPartnersRan(config, partners) ==
  Ran(GetUncategorizedPartners(partners, config), config)

\* anonymizer.Anonymize(merchantName, transactionType, anonCfg): the
\* function is not handed the Config
AnonymizeRan(config, merchantName, transactionType, anonCfg) ==
  Ran(Anonymize(merchantName, transactionType, anonCfg), config)

\* The second caller before its call, between the two loops of Categorize
\* (began: the calls the process had made when the call began; read: the
\* Config the first loop read; exact: what that loop returned) and after
\* the call (ended: the calls the process had made when it returned;
\* reread: the Config the rest of the method read; out: what it returned)
Idle == [pc |-> "idle"]

Between(partnerName, transactionType, began, read, exact) ==
  [pc |-> "exact", partnerName |-> partnerName,
   transactionType |-> transactionType, began |-> began, read |-> read,
   exact |-> exact]

Returned(partnerName, transactionType, began, ended, read, reread, out) ==
  [pc |-> "done", partnerName |-> partnerName,
   transactionType |-> transactionType, began |-> began, ended |-> ended,
   read |-> read, reread |-> reread, out |-> out]

\* The inputs of the calls on a shared Categorizer
SharedPartnerNames == {N_ALDI241, N_AldiMol}
SharedTypeLabels == {T_keszpenz_dij}
SharedPartnerLists == { <<P_A, P_B>>, <<P_Cspaced, P_A, P_Cspaced>> }
SharedMerchants == { <<N_ALDI, T_Purchase, NilAnonConfig>>,
                     <<N_VighSpaced, T_Atutalas, AnonConfig(N_vigh)>> }

Init ==
  /\ cfg = NilConfig
  /\ loaded = NilConfig
  /\ last = NoCall
  /\ pc = "init"
  /\ calls = 0
  /\ par = Idle

\* loadConfigOrDefault(configPath), then categorizer.New(cfg)
Load ==
  /\ pc = "init"
  /\ \E hasPath \in BOOLEAN, file \in ConfigFiles :
       \E r \in {loadConfigOrDefault(hasPath, file)} :
           /\ cfg' = r.config
           /\ loaded' = r.config
           /\ pc' = IF r.err = "" THEN "ready" ELSE "exit"
           /\ last' = Call("loadConfigOrDefault",
                           [hasPath |-> hasPath, file |-> file], r)
  /\ UNCHANGED <<calls, par>>

\* loadConfigOrDefault(configPath), then categorizer.New(cfg), and the
\* Categorizer handed to a second caller
LoadShared ==
  /\ pc = "init"
  /\ \E hasPath \in BOOLEAN, file \in CmdFiles :
       \E r \in {loadConfigOrDefault(hasPath, file)} :
           /\ cfg' = r.config
           /\ loaded' = r.config
           /\ pc' = IF r.err = "" THEN "shared" ELSE "exit"
           /\ last' = Call("loadConfigOrDefault",
                           [hasPath |-> hasPath, file |-> file], r)
  /\ UNCHANGED <<calls, par>>

\* The process can make a call: its one call, or one more of the calls it
\* makes in a row on a shared Categorizer
CanCall == pc = "ready" \/ (pc = "shared" /\ calls < MaxCalls)

\* Where the process is after a call: a panic ends the program
AfterCall(panicked) ==
  IF pc = "ready" THEN "called" ELSE IF panicked THEN "exit" ELSE "shared"

\* The calls made in a row on a shared Categorizer, after a call
AfterCalls == IF pc = "shared" THEN calls + 1 ELSE calls

\* A call of Categorize
CategorizeCall ==
  /\ CanCall
  /\ \E partnerName \in
          (IF pc = "shared" THEN SharedPartnerNames ELSE PartnerNames),
        transactionType \in
          (IF pc = "shared" THEN SharedTypeLabels ELSE TypeLabels),
        order1 \in RangeOrders(cfg.Categories),
        order2 \in RangeOrders(cfg.Categories) :
       \E r \in {CategorizeRan(cfg, partnerName, transactionType, order1,
                                order2)} :
           /\ last' = Call("Categorize",
                           [partnerName |-> partnerName,
                            transactionType |-> transactionType], r.out)
           /\ cfg' = r.config
           /\ pc' = AfterCall(r.out.kind = "panic")
  /\ calls' = AfterCalls
  /\ UNCHANGED <<loaded, par>>

\* The same call of Categorize once more
CategorizeAgain ==
  /\ pc = "called"
  /\ last.op = "Categorize"
  /\ last.out.kind /= "panic"
  /\ \E order1 \in RangeOrders(cfg.Categories),
        order2 \in RangeOrders(cfg.Categories) :
       \E r \in {CategorizeRan(cfg, last.in.partnerName,
                                last.in.transactionType, order1, order2)} :
           /\ last' = Call("Categorize", last.in, r.out)
           /\ cfg' = r.config
  /\ UNCHANGED <<pc, loaded, calls, par>>

\* A call of Anonymize
AnonymizeCall ==
  /\ CanCall
  /\ \E in \in (IF pc = "shared" THEN SharedMerchants
                ELSE MerchantNames \X AnonTypeLabels \X AnonConfigs) :
       \E r \in {AnonymizeRan(cfg, in[1], in[2], in[3])} :
           /\ last' = Call("Anonymize",
                           [merchantName |-> in[1],
                            transactionType |-> in[2], cfg |-> in[3]],
                           r.out)
           /\ cfg' = r.config
  /\ pc' = AfterCall(FALSE)
  /\ calls' = AfterCalls
  /\ UNCHANGED <<loaded, par>>

\* A call of GetUncategorizedPartners
GetUncategorizedPartnersCall ==
  /\ CanCall
  /\ \E partners \in (IF pc = "shared" THEN SharedPartnerLists
                      ELSE SeqsUpTo(UncategorizedInputs, MaxPartners)) :
       \E r \in {GetUncategorizedPartnersRan(cfg, partners)} :
           /\ last' = Call("GetUncategorizedPartners",
                           [partners |-> partners], r.out)
           /\ cfg' = r.config
  /\ pc' = AfterCall(FALSE)
  /\ calls' = AfterCalls
  /\ UNCHANGED <<loaded, par>>

\* The second caller calls Categorize: the first range loop of the method,
\* which returns, panics or falls through
ParBegin ==
  /\ pc = "shared"
  /\ par.pc = "idle"
  /\ \E partnerName \in SharedPartnerNames,
        transactionType \in SharedTypeLabels,
        order1 \in RangeOrders(cfg.Categories) :
       \E exact \in {ExactMatchLoop(partnerName, cfg.Categories, order1, 1)} :
           /\ par' = IF exact.kind = "none"
                     THEN Between(partnerName, transactionType, calls, cfg,
                                  exact)
                     ELSE Returned(partnerName, transactionType, calls, calls,
                                   cfg, cfg, exact)
           /\ pc' = IF exact.kind = "panic" THEN "exit" ELSE pc
  /\ UNCHANGED <<cfg, loaded, last, calls>>

\* The rest of the second caller's call: the second range loop and the
\* fallbacks
ParEnd ==
  /\ pc = "shared"
  /\ par.pc = "exact"
  /\ \E order2 \in RangeOrders(cfg.Categories) :
       \E out \in {CategorizeRest(par.exact, par.partnerName,
                                   par.transactionType, cfg, order2)} :
           /\ par' = Returned(par.partnerName, par.transactionType,
                              par.began, calls, par.read, cfg, out)
           /\ pc' = IF out.kind = "panic" THEN "exit" ELSE pc
  /\ UNCHANGED <<cfg, loaded, last, calls>>

\* A call of AddKnownPartner
AddKnownPartnerCall ==
  /\ pc = "ready"
  /\ \E partner \in KnownInputs :
       /\ cfg' = AddKnownPartner(cfg, partner)
       /\ last' = Call("AddKnownPartner",
                       [partner |-> partner, before |-> cfg.KnownPartners],
                       cfg'.KnownPartners)
  /\ pc' = "added"
  /\ UNCHANGED <<loaded, calls, par>>

\* The same call of AddKnownPartner once more
AddKnownPartnerAgain ==
  /\ pc = "added"
  /\ last.op = "AddKnownPartner"
  /\ cfg' = AddKnownPartner(cfg, last.in.partner)
  /\ last' = Call("AddKnownPartner",
                  [partner |-> last.in.partner, before |-> cfg.KnownPartners],
                  cfg'.KnownPartners)
  /\ pc' = "called"
  /\ UNCHANGED <<loaded, calls, par>>

\* A call of IsKnownPartner, on the loaded configuration or after a call
\* of AddKnownPartner
IsKnownPartnerCall ==
  /\ pc \in {"ready", "added"}
  /\ \E partner \in KnownInputs :
       last' = Call("IsKnownPartner", [partner |-> partner],
                    IsKnownPartner(cfg, partner))
  /\ pc' = "called"
  /\ UNCHANGED <<cfg, loaded, calls, par>>

\* converter.New(categorizer.New(cfg), accountName).Convert(khTransactions)
\* on a configuration loaded from a file and the transactions parsed from
\* an export
ConvertCall ==
  /\ pc = "init"
  /\ \E file \in ConvertFiles, input \in InputFiles,
        accountName \in AccountNames :
       LET load == loadConfigOrDefault(TRUE, file)
           kh == ParseKHExport(input)
           orders == RangeOrders(load.config.Categories)
       IN  /\ load.err = ""
           /\ input.kind = "records"
           /\ kh.err = ""
           /\ \E os \in [1..Len(kh.transactions) -> orders \X orders] :
                last' = Call("Convert",
                             [khTransactions |-> kh.transactions,
                              accountName |-> accountName, orders |-> os],
                             Convert(kh.transactions, load.config,
                                     accountName, os))
           /\ cfg' = load.config
           /\ loaded' = load.config
  /\ pc' = "exit"
  /\ UNCHANGED <<calls, par>>

\* A run of the convert command
ConvertCmdRun ==
  /\ pc = "init"
  /\ \E hasPath \in BOOLEAN, file \in CmdFiles, input \in CmdInputs,
        output \in OutputFiles, accountName \in AccountNames :
       LET load == loadConfigOrDefault(hasPath, file)
           n == Len(ParseKHExport(input).transactions)
           orders == RangeOrders(load.config.Categories)
       IN  /\ \E os \in [1..n -> orders \X orders] :
                \E r \in {ConvertCmd(hasPath, file, input, output.creatable,
                                      output.room, accountName, os)} :
                    /\ last' = Call("ConvertCmd",
                                    [hasPath |-> hasPath, file |-> file,
                                     input |-> input,
                                     creatable |-> output.creatable,
                                     room |-> output.room,
                                     accountName |-> accountName,
                                     orders |-> os],
                                    r)
                    /\ cfg' = r.config
           /\ loaded' = load.config
  /\ pc' = "exit"
  /\ UNCHANGED <<calls, par>>

\* A run of the update-config command up to the question for the owner
\* name: the command has returned (pc "exit"), or it waits in fmt.Scanln
\* for the line the operator types (pc "scanln"), holding the Config, the
\* partner names and types and the uncategorized partners
UpdateConfigCmdBegin ==
  /\ pc = "init"
  /\ \E hasPath \in BOOLEAN, file \in UpdateFiles, input \in UpdateInputs :
       \E asked \in {UpdateConfigCmdAsked(hasPath, file, input)} :
           /\ last' = IF asked.returned
                      THEN Call("UpdateConfigCmd",
                                [hasPath |-> hasPath, file |-> file,
                                 input |-> input],
                                UpdateConfigCmdReturned(asked))
                      ELSE Call("Scanln",
                                [hasPath |-> hasPath, file |-> file,
                                 input |-> input],
                                asked)
           /\ cfg' = asked.config
           /\ loaded' = loadConfigOrDefault(hasPath, file).config
           /\ pc' = IF asked.returned THEN "exit" ELSE "scanln"
  /\ UNCHANGED <<calls, par>>

\* The operator types a line: fmt.Scanln returns and the command goes on
\* to its end with the Config and the names it holds
UpdateConfigCmdEnd ==
  /\ pc = "scanln"
  /\ \E line \in OwnerLines :
       \E r \in {UpdateConfigCmdAnswered(cfg, last.out.partnerNames,
                                         last.out.transactionTypes,
                                         last.out.uncategorized, line)} :
           /\ last' = Call("UpdateConfigCmd",
                           [hasPath |-> last.in.hasPath,
                            file |-> last.in.file,
                            input |-> last.in.input, line |-> line], r)
           /\ cfg' = r.config
  /\ pc' = "exit"
  /\ UNCHANGED <<loaded, calls, par>>

Next ==
  \/ Load
  \/ LoadShared
  \/ CategorizeCall
  \/ CategorizeAgain
  \/ AnonymizeCall
  \/ GetUncategorizedPartnersCall
  \/ ParBegin
  \/ ParEnd
  \/ AddKnownPartnerCall
  \/ AddKnownPartnerAgain
  \/ IsKnownPartnerCall
  \/ ConvertCall
  \/ ConvertCmdRun
  \/ UpdateConfigCmdBegin
  \/ UpdateConfigCmdEnd

Spec == Init /\ [][Next]_vars

---------------------------------------------------------------------------
(* The claims.                                                             *)

\* A RuleSet: every category of the configuration is a Rule (a mapping
\* from category names to Rules, none of them null)
IsRuleSet(config) ==
  /\ ~config.isNil
  /\ \A n \in DOMAIN config.Categories : ~config.Categories[n].isNil

Elements(seq) == { seq[i] : i \in 1..Len(seq) }

\* The Rules with name among their exactMatches (case-sensitive, whole string)
ExactRules(config, name) ==
  { n \in DOMAIN config.Categories :
      name \in Elements(config.Categories[n].ExactMatches) }

\* The Rules with a keyword that the name contains, case-insensitively
KeywordRules(config, name) ==
  { n \in DOMAIN config.Categories :
      \E k \in Elements(config.Categories[n].Keywords) :
        Contains(ToLower(name), ToLower(k)) }

\* The pair of Rule n
RuleResult(config, n) == Return(n, config.Categories[n].SubCategory)

\* The transaction type label has a phrase of the fallback tier
HasFallbackPhrase(type) ==
  \E p \in {P_jovairas, P_fizetes, P_hitel_torlesztes, P_keszpenz, P_dij,
            P_koltseg} : Contains(ToLower(type), p)

\* C1 as stated: for a name that is an exactMatches entry of a Rule,
\* Categorize returns the category and subcategory of that Rule, whatever
\* Rule has the entry.
C1_ExactMatchOfEveryRule ==
  (last.op = "Categorize" /\ IsRuleSet(cfg)) =>
    \A n \in ExactRules(cfg, last.in.partnerName) :
      last.out = RuleResult(cfg, n)

\* C1 as amended: for a name that is an exactMatches entry of some Rule,
\* Categorize returns the category and subcategory of a Rule that has this
\* entry (of that Rule when it is the only one), also when the lower-cased
\* name contains a keyword of another Rule, and for every type label.
C1_ExactMatchWins ==
  (/\ last.op = "Categorize"
   /\ IsRuleSet(cfg)
   /\ ExactRules(cfg, last.in.partnerName) /= {}) =>
    \E n \in ExactRules(cfg, last.in.partnerName) :
      last.out = RuleResult(cfg, n)

\* An exact match of one Rule, a keyword match of another Rule only, and a
\* type label with a fallback phrase
C1_Witness ==
  /\ last.op = "Categorize"
  /\ IsRuleSet(cfg)
  /\ \E n \in ExactRules(cfg, last.in.partnerName) :
       /\ ExactRules(cfg, last.in.partnerName) = {n}
       /\ KeywordRules(cfg, last.in.partnerName) \ {n} /= {}
       /\ n \notin KeywordRules(cfg, last.in.partnerName)
       /\ last.out = RuleResult(cfg, n)
  /\ HasFallbackPhrase(last.in.transactionType)

\* C2 as stated: for a name that contains a keyword of a Rule and is no
\* exactMatches entry, Categorize returns the category and subcategory of
\* that Rule, whatever Rule has the keyword.
C2_KeywordOfEveryRule ==
  (/\ last.op = "Categorize"
   /\ IsRuleSet(cfg)
   /\ ExactRules(cfg, last.in.partnerName) = {}) =>
    \A n \in KeywordRules(cfg, last.in.partnerName) :
      last.out = RuleResult(cfg, n)

\* C2 as amended: for a name that contains, case-insensitively, a keyword
\* of some Rule and is no exactMatches entry of any Rule, Categorize
\* returns the category and subcategory of a Rule with a keyword the name
\* contains (of that Rule when it is the only one), for every type label.
C2_KeywordWins ==
  (/\ last.op = "Categorize"
   /\ IsRuleSet(cfg)
   /\ ExactRules(cfg, last.in.partnerName) = {}
   /\ KeywordRules(cfg, last.in.partnerName) /= {}) =>
    \E n \in KeywordRules(cfg, last.in.partnerName) :
      last.out = RuleResult(cfg, n)

\* A keyword match in upper case against a lower-case keyword or the
\* reverse, no exact match, and a type label with a fallback phrase
C2_Witness ==
  /\ last.op = "Categorize"
  /\ IsRuleSet(cfg)
  /\ ExactRules(cfg, last.in.partnerName) = {}
  /\ \E n \in KeywordRules(cfg, last.in.partnerName) :
       /\ KeywordRules(cfg, last.in.partnerName) = {n}
       /\ \A k \in Elements(cfg.Categories[n].Keywords) :
            ~Contains(last.in.partnerName, k)
       /\ last.out = RuleResult(cfg, n)
  /\ HasFallbackPhrase(last.in.transactionType)

\* C3: two calls of Categorize with the same name, the same type label and
\* the same RuleSet return the same pair.
C3_Deterministic ==
  [][(/\ last.op = "Categorize"
      /\ last'.op = "Categorize"
      /\ last'.in = last.in
      /\ cfg' = cfg
      /\ IsRuleSet(cfg)) => last'.out = last.out]_vars

\* An owner name is supplied
OwnerSupplied(anonCfg) == ~anonCfg.isNil /\ anonCfg.OwnerName /= <<>>

\* Two upper-case letters and 10 to 34 digits, whole string
AccountNumberShape(s) ==
  /\ Len(s) \in 12..36
  /\ s[1] \in AsciiUpper /\ s[2] \in AsciiUpper
  /\ \A i \in 3..Len(s) : s[i] \in AsciiDigits

\* The type label has a transfer phrase
HasTransferPhrase(type) ==
  \E p \in {P_atutalas, P_atvezetes, P_jovairas} : Contains(ToLower(type), p)

\* C4 as stated: a name that equals the supplied owner name
\* case-insensitively is classified owner_name with [OWNER_NAME], also
\* with a transfer phrase in the type label.
C4_OwnerNameAlways ==
  (/\ last.op = "Anonymize"
   /\ OwnerSupplied(last.in.cfg)
   /\ EqualFold(last.in.merchantName, last.in.cfg.OwnerName)) =>
    /\ last.out.DetectionType = "owner_name"
    /\ last.out.Anonymized = R_OWNER_NAME

\* C4 as amended: a name that, trimmed, is not account-number shaped and
\* equals the supplied owner name case-insensitively is classified
\* owner_name with [OWNER_NAME], also with a transfer phrase in the type
\* label.
C4_OwnerBeforeTransfer ==
  (/\ last.op = "Anonymize"
   /\ OwnerSupplied(last.in.cfg)
   /\ ~AccountNumberShape(TrimSpace(last.in.merchantName))
   /\ EqualFold(TrimSpace(last.in.merchantName), last.in.cfg.OwnerName)) =>
    /\ last.out.DetectionType = "owner_name"
    /\ last.out.Anonymized = R_OWNER_NAME
    /\ last.out.IsPersonal

\* The owner name in another case, on a transfer
C4_Witness ==
  /\ last.op = "Anonymize"
  /\ OwnerSupplied(last.in.cfg)
  /\ last.in.merchantName /= last.in.cfg.OwnerName
  /\ EqualFold(last.in.merchantName, last.in.cfg.OwnerName)
  /\ HasTransferPhrase(last.in.transactionType)
  /\ last.out.DetectionType = "owner_name"

\* C5: an account-number shaped name is classified account_number with
\* [ACCOUNT_NUMBER], whatever the type label and the owner name.
C5_AccountNumberAlways ==
  (last.op = "Anonymize" /\ AccountNumberShape(last.in.merchantName)) =>
    last.out = AnonymizationResult(last.in.merchantName, R_ACCOUNT_NUMBER,
                                   TRUE, "account_number")

\* An account number that is also the owner name, on a transfer
C5_Witness ==
  /\ last.op = "Anonymize"
  /\ AccountNumberShape(last.in.merchantName)
  /\ OwnerSupplied(last.in.cfg)
  /\ last.in.cfg.OwnerName = last.in.merchantName
  /\ HasTransferPhrase(last.in.transactionType)
  /\ last.out.DetectionType = "account_number"

\* C6 as stated: a non-blank name that is not account-number shaped and
\* is not the owner name (compared without regard to case) is, with a
\* transfer phrase in the lower-cased type label, classified
\* transfer_partner, personal, with [TRANSFER_PARTNER].
C6_TransferPartnerAsGiven ==
  (/\ last.op = "Anonymize"
   /\ TrimSpace(last.in.merchantName) /= <<>>
   /\ ~AccountNumberShape(last.in.merchantName)
   /\ ~(/\ OwnerSupplied(last.in.cfg)
        /\ EqualFold(last.in.merchantName, last.in.cfg.OwnerName))
   /\ HasTransferPhrase(last.in.transactionType)) =>
    last.out = AnonymizationResult(last.in.merchantName, R_TRANSFER_PARTNER,
                                   TRUE, "transfer_partner")

\* C6: a non-blank name that, trimmed of the white space around it, is
\* not account-number shaped and is not the owner name (compared without
\* regard to case) is, with a transfer phrase in the lower-cased type
\* label, classified transfer_partner, personal, with [TRANSFER_PARTNER].
C6_TransferPartner ==
  (/\ last.op = "Anonymize"
   /\ TrimSpace(last.in.merchantName) /= <<>>
   /\ ~AccountNumberShape(TrimSpace(last.in.merchantName))
   /\ ~(/\ OwnerSupplied(last.in.cfg)
        /\ EqualFold(TrimSpace(last.in.merchantName), last.in.cfg.OwnerName))
   /\ HasTransferPhrase(last.in.transactionType)) =>
    last.out = AnonymizationResult(last.in.merchantName, R_TRANSFER_PARTNER,
                                   TRUE, "transfer_partner")

\* A name other than the supplied owner name, on a transfer whose label
\* has the phrase in upper case
C6_Witness ==
  /\ last.op = "Anonymize"
  /\ OwnerSupplied(last.in.cfg)
  /\ last.in.merchantName = N_ALDI
  /\ Contains(ToLower(last.in.transactionType), P_atvezetes)
  /\ ~Contains(last.in.transactionType, P_atvezetes)
  /\ last.out.DetectionType = "transfer_partner"
  /\ last.out.Anonymized = R_TRANSFER_PARTNER

\* C7: GetUncategorizedPartners returns the trimmed non-empty names that
\* are not known partners, each once, in the order of their first
\* occurrence.
C7_Uncategorized ==
  last.op = "GetUncategorizedPartners" =>
    LET in == last.in.partners
        out == last.out
        trimmed == [i \in 1..Len(in) |-> TrimSpace(in[i])]
        known == Elements(cfg.KnownPartners)
        first(x) == CHOOSE i \in 1..Len(in) :
                      trimmed[i] = x /\ \A j \in 1..(i - 1) : trimmed[j] /= x
    IN  /\ Elements(out) = { x \in Elements(trimmed) : x /= <<>> /\ x \notin known }
        /\ \A i, j \in 1..Len(out) : out[i] = out[j] => i = j
        /\ \A i, j \in 1..Len(out) : i < j => first(out[i]) < first(out[j])

\* A name that occurs padded and bare, after a known partner, is
\* returned once, and a later new name after it
C7_Witness ==
  /\ last.op = "GetUncategorizedPartners"
  /\ cfg.KnownPartners = <<P_B>>
  /\ \E i, j, k \in 1..Len(last.in.partners) :
       /\ i < j
       /\ last.in.partners[i] = P_Cspaced
       /\ last.in.partners[j] = P_C
       /\ last.in.partners[k] = P_B
  /\ last.out = <<P_C>>

\* A category of the document has no subcategory: it is null, or its
\* subcategory is missing or empty
LacksSubcategory(d) == d.null \/ d.subcategory = <<>> \/ d.subcategory = << <<>> >>

\* C8: loading a configuration with a category that has no subcategory
\* fails, and every Rule of a loaded RuleSet has a non-empty subcategory.
C8_SubcategoryRequired ==
  /\ (/\ last.op = "loadConfigOrDefault"
      /\ last.in.hasPath
      /\ last.in.file.kind = "yaml"
      /\ \E n \in DOMAIN last.in.file.doc.categories :
           LacksSubcategory(last.in.file.doc.categories[n]))
       => last.out.err /= ""
  /\ pc = "ready" =>
       \A n \in DOMAIN cfg.Categories :
         ~cfg.Categories[n].isNil /\ cfg.Categories[n].SubCategory /= <<>>

\* The configuration source is absent: no path, or no file at the path
SourceAbsent(in) == ~in.hasPath \/ in.file.kind = "absent"

\* C9: with an absent source the load gives the empty RuleSet and no
\* error, and the command goes on to the input (and ends without error
\* when the input has its two lines and the output file takes every
\* byte); with any other load failure the load returns the error and the
\* command fails with nothing parsed, converted or written.
C9_AbsentOrMalformed ==
  /\ last.op = "loadConfigOrDefault" =>
       /\ SourceAbsent(last.in) =>
            /\ last.out.err = ""
            /\ last.out.config = EmptyConfig
            /\ pc \in {"ready", "shared"}
       /\ (~SourceAbsent(last.in) /\ last.in.file.kind /= "yaml") =>
            last.out.err /= "" /\ pc = "exit"
  /\ last.op = "ConvertCmd" =>
       /\ SourceAbsent(last.in) =>
            /\ cfg = EmptyConfig
            /\ last.out.err \notin {"failed to load config", "panic"}
            /\ (last.in.input.kind = "records" /\ Len(last.in.input.records) >= 2)
                 => last.out.parsed >= 0 /\ last.out.converted >= 0
            /\ (/\ last.in.input.kind = "records"
                /\ Len(last.in.input.records) >= 2
                /\ last.in.creatable
                /\ last.in.room = Unlimited)
                 => last.out.err = "" /\ last.out.output.created
       /\ (~SourceAbsent(last.in) /\ last.in.file.kind /= "yaml") =>
            /\ last.out.err = "failed to load config"
            /\ last.out.parsed = -1
            /\ last.out.converted = -1
            /\ ~last.out.output.created

\* A run of the command on a malformed configuration and a good export
C9_Witness ==
  /\ last.op = "ConvertCmd"
  /\ last.in.hasPath
  /\ last.in.file.kind = "malformed"
  /\ last.in.input.kind = "records"
  /\ Len(last.in.input.records) >= 2
  /\ last.in.creatable
  /\ last.out.err = "failed to load config"

\* C10: without an exact and a keyword match, the type label decides in
\* the order credit or payment, loan repayment, cash, fee; the earliest
\* group with a phrase in the label gives the result.
C10_FallbackOrder ==
  (/\ last.op = "Categorize"
   /\ IsRuleSet(cfg)
   /\ ExactRules(cfg, last.in.partnerName) = {}
   /\ KeywordRules(cfg, last.in.partnerName) = {}) =>
    LET has(p) == Contains(ToLower(last.in.transactionType), p)
        credit == has(P_jovairas) \/ has(P_fizetes)
        loan == has(P_hitel_torlesztes)
        cash == has(P_keszpenz)
        fee == has(P_dij) \/ has(P_koltseg)
    IN  /\ last.out.kind = "return"
        /\ credit => last.out = Return(C_Miscellaneous, C_OtherIncome)
        /\ (~credit /\ loan) =>
             last.out = Return(C_FinanceInsurance, C_InterestExpense)
        /\ (~credit /\ ~loan /\ cash) =>
             last.out = Return(C_GeneralTransfer, C_DepositsWithdrawals)
        /\ (~credit /\ ~loan /\ ~cash /\ fee) =>
             last.out = Return(C_FinanceInsurance, C_ServiceCharge)

\* A label with a cash and a fee phrase, on a RuleSet with Rules none of
\* which matches
C10_Witness ==
  /\ last.op = "Categorize"
  /\ IsRuleSet(cfg)
  /\ DOMAIN cfg.Categories /= {}
  /\ ExactRules(cfg, last.in.partnerName) = {}
  /\ KeywordRules(cfg, last.in.partnerName) = {}
  /\ Contains(ToLower(last.in.transactionType), P_keszpenz)
  /\ Contains(ToLower(last.in.transactionType), P_dij)
  /\ last.out = Return(C_GeneralTransfer, C_DepositsWithdrawals)

\* Nothing applies: no exact match, no keyword match of a category of the
\* configuration, and no fallback phrase in the type label
NothingApplies(config, name, type) ==
  /\ ExactRules(config, name) = {}
  /\ KeywordRules(config, name) = {}
  /\ ~HasFallbackPhrase(type)

\* C11: Categorize is total: on every loaded configuration, the empty one
\* included, a call returns a pair and never fails, and when nothing
\* applies the pair is Miscellaneous with the empty subcategory.
C11_Total ==
  last.op = "Categorize" =>
    /\ last.out.kind = "return"
    /\ NothingApplies(cfg, last.in.partnerName, last.in.transactionType) =>
         last.out = Return(C_Miscellaneous, <<>>)

\* C12: when nothing applies, the category is "Uncategorized".
C12_Uncategorized ==
  (/\ last.op = "Categorize"
   /\ IsRuleSet(cfg)
   /\ NothingApplies(cfg, last.in.partnerName, last.in.transactionType)) =>
    last.out.category = C_Uncategorized

\* The transaction has a date and an amount that parse
Convertible(kh) == ParseDate(kh.Date).ok /\ parseAmount(kh.Amount).ok

\* The positions, in order, of the convertible transactions
RECURSIVE ConvertiblePositions(_, _)
ConvertiblePositions(khTransactions, i) ==
  IF i > Len(khTransactions) THEN <<>>
  ELSE (IF Convertible(khTransactions[i]) THEN <<i>> ELSE <<>>)
         \o ConvertiblePositions(khTransactions, i + 1)

\* The signed amount is greater than zero
Positive(amountStr) ==
  GreaterThanZero(parseAmount(amountStr).f)

\* C13: every transaction Convert returns has a non-empty subcategory: an
\* empty subcategory of Categorize becomes Other Income for an amount
\* above zero and Other Expense otherwise, a non-empty one is kept, and
\* the type is Income exactly for an amount above zero.
C13_SubcategoryDefault ==
  (last.op = "Convert" /\ IsRuleSet(cfg) /\ ~last.out.panic) =>
    LET txs == last.in.khTransactions
        pos == ConvertiblePositions(txs, 1)
        rows == last.out.ezTransactions
    IN  /\ Len(rows) = Len(pos)
        /\ \A k \in 1..Len(rows) :
             LET kh == txs[pos[k]]
                 cat == Categorize(kh.PartnerName, kh.Type, cfg,
                                   last.in.orders[pos[k]][1],
                                   last.in.orders[pos[k]][2])
             IN  /\ rows[k].SubCategory /= <<>>
                 /\ rows[k].Type = (IF Positive(kh.Amount) THEN C_Income
                                    ELSE C_Expense)
                 /\ cat.subCategory = <<>> =>
                      rows[k].SubCategory = (IF Positive(kh.Amount)
                                             THEN C_OtherIncome
                                             ELSE C_OtherExpense)
                 /\ cat.subCategory /= <<>> =>
                      rows[k].SubCategory = cat.subCategory

\* A call of Convert on a zero amount and an amount above zero, both of a
\* partner that a Rule without subcategory matches
C13_Witness ==
  /\ last.op = "Convert"
  /\ IsRuleSet(cfg)
  /\ \E i, j \in 1..Len(last.out.ezTransactions) :
       /\ last.out.ezTransactions[i].Category = C_Transportation
       /\ last.out.ezTransactions[i].Amount = Runes(<<"0", ".", "0", "0">>)
       /\ last.out.ezTransactions[i].Type = C_Expense
       /\ last.out.ezTransactions[i].SubCategory = C_OtherExpense
       /\ last.out.ezTransactions[j].Category = C_Transportation
       /\ last.out.ezTransactions[j].Type = C_Income
       /\ last.out.ezTransactions[j].SubCategory = C_OtherIncome

\* C14: after AddKnownPartner(n) the name n is in the list; a name that was
\* in the list leaves it unchanged, a new name is appended, so a second
\* AddKnownPartner(n) changes nothing; IsKnownPartner is membership of the
\* exact string.
C14_IdempotentInsertion ==
  /\ last.op = "AddKnownPartner" =>
       /\ last.in.partner \in Elements(cfg.KnownPartners)
       /\ last.out = cfg.KnownPartners
       /\ cfg.KnownPartners =
            (IF last.in.partner \in Elements(last.in.before)
             THEN last.in.before
             ELSE Append(last.in.before, last.in.partner))
       /\ pc = "called" => cfg.KnownPartners = last.in.before
  /\ last.op = "IsKnownPartner" =>
       (last.out <=> last.in.partner \in Elements(cfg.KnownPartners))

\* The second AddKnownPartner of a name that differs from a known partner
\* in case only
C14_Witness ==
  /\ last.op = "AddKnownPartner"
  /\ pc = "called"
  /\ last.in.partner = P_b
  /\ cfg.KnownPartners = <<P_B, P_b>>

\* The fixed placeholder of a detection type
Placeholder(detectionType) ==
  CASE detectionType = "owner_name" -> R_OWNER_NAME
    [] detectionType = "transfer_partner" -> R_TRANSFER_PARTNER
    [] detectionType = "account_number" -> R_ACCOUNT_NUMBER
    [] OTHER -> <<>>

PersonalTypes == {"owner_name", "transfer_partner", "account_number"}

\* C15 as stated: Original is the input name; IsPersonal holds exactly for
\* the three personal detection types; a result that is not personal has
\* the name unchanged; a personal result has the placeholder of its type,
\* which is never the input name.
C15_PlaceholderNeverTheName ==
  last.op = "Anonymize" =>
    /\ last.out.Original = last.in.merchantName
    /\ last.out.IsPersonal <=> last.out.DetectionType \in PersonalTypes
    /\ ~last.out.IsPersonal => last.out.Anonymized = last.out.Original
    /\ last.out.IsPersonal =>
         /\ last.out.Anonymized = Placeholder(last.out.DetectionType)
         /\ last.out.Anonymized /= last.in.merchantName

\* C15 as amended: Original is the input name; the detection type is one
\* of none, owner_name, transfer_partner, account_number and IsPersonal
\* holds exactly for the last three; a result that is not personal has the
\* name unchanged; a personal result has the placeholder of its type,
\* which differs from the input name unless the input name is itself that
\* placeholder text.
C15_ResultInvariant ==
  last.op = "Anonymize" =>
    /\ last.out.Original = last.in.merchantName
    /\ last.out.DetectionType \in PersonalTypes \cup {"none"}
    /\ last.out.IsPersonal <=> last.out.DetectionType \in PersonalTypes
    /\ ~last.out.IsPersonal => last.out.Anonymized = last.out.Original
    /\ last.out.IsPersonal =>
         /\ last.out.Anonymized = Placeholder(last.out.DetectionType)
         /\ last.in.merchantName /= Placeholder(last.out.DetectionType) =>
              last.out.Anonymized /= last.in.merchantName

\* A padded name that is not personal is returned with its padding
C15_Witness ==
  /\ last.op = "Anonymize"
  /\ last.in.merchantName = N_VighSpaced
  /\ ~last.out.IsPersonal
  /\ last.out.DetectionType = "none"
  /\ last.out.Anonymized = N_VighSpaced

\* The operations of the core
CoreOps == {"Categorize", "GetUncategorizedPartners", "Anonymize"}

\* C16: a call of Categorize, GetUncategorizedPartners or Anonymize leaves
\* the configuration as it was, so that after any sequence of these calls
\* it is the configuration that was loaded; a run of the convert or the
\* update-config command ends with the configuration it loaded (also the
\* one the prompt shows), and the update-config command holds it while it
\* waits for the owner name; and a call of Categorize that a second caller
\* makes between and around these calls reads the loaded configuration in
\* both its loops and returns what Categorize returns on it.
C16_RuleSetUnchanged ==
  [][/\ last'.op \in CoreOps => cfg' = cfg /\ cfg' = loaded'
     /\ last'.op \in {"ConvertCmd", "UpdateConfigCmd"}
          => /\ cfg' = loadConfigOrDefault(last'.in.hasPath,
                                           last'.in.file).config
             /\ last'.out.config = cfg'
     /\ (last'.op = "UpdateConfigCmd" /\ last'.out.prompt.printed)
          => last'.out.prompt.data.CurrentConfig = cfg'
     /\ last'.op = "Scanln"
          => /\ cfg' = loadConfigOrDefault(last'.in.hasPath,
                                           last'.in.file).config
             /\ last'.out.config = cfg'
     /\ pc = "scanln" => cfg' = cfg /\ cfg' = loaded'
     /\ par'.pc = "exact" => par'.read = loaded'
     /\ par'.pc = "done"
          => /\ par'.read = loaded'
             /\ par'.reread = loaded'
             /\ \E order1 \in RangeOrders(loaded'.Categories),
                   order2 \in RangeOrders(loaded'.Categories) :
                  par'.out = Categorize(par'.partnerName,
                                        par'.transactionType, loaded',
                                        order1, order2)]_vars

\* A sequence of calls of the three operations on loaded categories and
\* known partners, with a call of the second caller that began before one
\* of them and returned after it
C16_Witness ==
  /\ pc = "shared"
  /\ calls >= 2
  /\ last.op = "GetUncategorizedPartners"
  /\ last.out = <<P_A>>
  /\ cfg.KnownPartners = <<P_B>>
  /\ IsRuleSet(cfg)
  /\ par.pc = "done"
  /\ par.began < par.ended
  /\ par.out.kind = "return"
  /\ par.out.category \in DOMAIN cfg.Categories

\* The number of results with the detection type
CountOf(anonymized, detectionType) ==
  Cardinality({ i \in 1..Len(anonymized) :
                  anonymized[i].DetectionType = detectionType })

\* The k-th position, in input order, of a result with detection type none
NthBusiness(anonymized, k) ==
  CHOOSE i \in 1..Len(anonymized) :
    /\ anonymized[i].DetectionType = "none"
    /\ Cardinality({ j \in 1..i : anonymized[j].DetectionType = "none" }) = k

\* The entries of the list with the text
EntriesOf(list, text) == { i \in 1..Len(list) : list[i].group /\ list[i].text = text }

\* C17: in the prompt, each placeholder group is listed exactly when there
\* are results of its detection type and shows their number as its
\* occurrences; the businesses are the Anonymized names of the results of
\* type none in input order; TotalMerchants is the number of results and
\* AnonymizedCount the number of personal results.
C17_PromptGroups ==
  (last.op = "UpdateConfigCmd" /\ last.out.prompt.printed) =>
    LET res == last.out.anonymized
        data == last.out.prompt.data
        list == last.out.prompt.list
        businessEntries == SelectSeq(list, LAMBDA e : ~e.group)
    IN  /\ Len(data.OwnerNames) = CountOf(res, "owner_name")
        /\ Len(data.TransferPartners) = CountOf(res, "transfer_partner")
        /\ Len(data.AccountNumbers) = CountOf(res, "account_number")
        /\ \A t \in PersonalTypes :
             /\ Cardinality(EntriesOf(list, Placeholder(t)))
                  = (IF CountOf(res, t) > 0 THEN 1 ELSE 0)
             /\ \A i \in EntriesOf(list, Placeholder(t)) :
                  list[i].occurrences = CountOf(res, t)
        /\ Len(data.Businesses) = CountOf(res, "none")
        /\ \A k \in 1..Len(data.Businesses) :
             data.Businesses[k] = res[NthBusiness(res, k)].Anonymized
        /\ [k \in 1..Len(businessEntries) |-> businessEntries[k].text]
             = data.Businesses
        /\ data.TotalMerchants = Len(res)
        /\ data.AnonymizedCount
             = Cardinality({ i \in 1..Len(res) : res[i].IsPersonal })

\* A prompt with the three placeholder groups, the transfer partner group
\* of one occurrence, and two businesses
C17_Witness ==
  /\ last.op = "UpdateConfigCmd"
  /\ last.out.prompt.printed
  /\ Len(last.out.prompt.data.OwnerNames) = 1
  /\ Len(last.out.prompt.data.TransferPartners) = 1
  /\ Len(last.out.prompt.data.AccountNumbers) = 1
  /\ last.out.prompt.data.Businesses = <<N_Unknown, N_ALDI>>
  /\ last.out.prompt.data.AnonymizedCount = 3

\* C18: the entries of the list NEW UNCATEGORIZED MERCHANTS are numbered
\* 1, 2, 3, ... in their order, the placeholder groups first and the
\* businesses after them.
C18_ConsecutiveNumbers ==
  (last.op = "UpdateConfigCmd" /\ last.out.prompt.printed) =>
    \A i \in 1..Len(last.out.prompt.list) : last.out.prompt.list[i].number = i

\* The export has a transaction of the partner with a transfer phrase in
\* its type label
OnTransfer(input, partner) ==
  \E i \in 1..Len(ParseKHExport(input).transactions) :
    /\ ParseKHExport(input).transactions[i].PartnerName = partner
    /\ HasTransferPhrase(ParseKHExport(input).transactions[i].Type)

\* C20: an unknown partner with a transfer phrase in the type label of at
\* least one of its transactions gets a personal detection type and is not
\* among the businesses of the prompt, whatever the order of its
\* transactions.
C20_ConservativeRedaction ==
  (last.op = "UpdateConfigCmd" /\ last.out.prompt.printed) =>
    \A i \in 1..Len(last.out.anonymized) :
      OnTransfer(last.in.input, last.out.anonymized[i].Original) =>
        /\ last.out.anonymized[i].DetectionType \in PersonalTypes
        /\ last.out.anonymized[i].Original
             \notin Elements(last.out.prompt.data.Businesses)

\* C19: Convert returns one transaction for every transaction with a date
\* and an amount that parse and one error for every other one, so that
\* the transactions and the errors it returns are as many as its input;
\* the transactions returned are those of the convertible transactions,
\* in their order, each what convertSingle makes of its own input
\* transaction whatever the others are.
C19_Partition ==
  (last.op = "Convert" /\ IsRuleSet(cfg) /\ ~last.out.panic) =>
    LET txs == last.in.khTransactions
        pos == ConvertiblePositions(txs, 1)
        rows == last.out.ezTransactions
    IN  /\ Len(rows) = Len(pos)
        /\ Len(last.out.errors) = Len(txs) - Len(pos)
        /\ Len(rows) + Len(last.out.errors) = Len(txs)
        /\ \A k \in 1..Len(rows) :
             /\ rows[k].DateTime = formatDateTime(ParseDate(txs[pos[k]].Date).t)
             /\ rows[k].Amount =
                  formatAmount(Abs(parseAmount(txs[pos[k]].Amount).f))
             /\ rows[k].Description = buildDescription(txs[pos[k]])
             /\ rows[k] = convertSingle(txs[pos[k]], cfg, last.in.accountName,
                                        last.in.orders[pos[k]][1],
                                        last.in.orders[pos[k]][2]).ez

\* A call with a failing transaction between two that convert
C19_Witness ==
  /\ last.op = "Convert"
  /\ IsRuleSet(cfg)
  /\ Len(last.in.khTransactions) = 3
  /\ Convertible(last.in.khTransactions[1])
  /\ ~Convertible(last.in.khTransactions[2])
  /\ Convertible(last.in.khTransactions[3])
  /\ Len(last.out.ezTransactions) = 2
  /\ Len(last.out.errors) = 1

\* The names in the four lists handed to the prompt template
PromptNames(data) ==
  Elements(data.OwnerNames) \cup Elements(data.TransferPartners)
    \cup Elements(data.AccountNumbers) \cup Elements(data.Businesses)

\* The list of the template data that takes the results of a detection type
PromptListOf(data, detectionType) ==
  CASE detectionType = "owner_name" -> data.OwnerNames
    [] detectionType = "transfer_partner" -> data.TransferPartners
    [] detectionType = "account_number" -> data.AccountNumbers
    [] OTHER -> data.Businesses

\* Every name of the business list is the name of a result of type none
BusinessesAreNone(anonymized, data) ==
  \A k \in 1..Len(data.Businesses) :
    \E i \in 1..Len(anonymized) :
      /\ anonymized[i].DetectionType = "none"
      /\ ~anonymized[i].IsPersonal
      /\ anonymized[i].Original = data.Businesses[k]

\* C21 as stated: the original name of a result that is personal is in
\* none of the four lists of the prompt, its placeholder is in the list of
\* its detection type, and the business list has only names of type none.
C21_OriginalInNoList ==
  (last.op = "UpdateConfigCmd" /\ last.out.prompt.printed) =>
    /\ \A i \in 1..Len(last.out.anonymized) :
         last.out.anonymized[i].IsPersonal =>
           /\ last.out.anonymized[i].Original
                \notin PromptNames(last.out.prompt.data)
           /\ Placeholder(last.out.anonymized[i].DetectionType)
                \in Elements(PromptListOf(last.out.prompt.data,
                                          last.out.anonymized[i].DetectionType))
    /\ BusinessesAreNone(last.out.anonymized, last.out.prompt.data)

\* C21 as amended: the original name of a result that is personal, unless
\* it is itself one of the three placeholder texts, is in none of the four
\* lists of the prompt; the three placeholder lists hold nothing but their
\* placeholder, once per result of the type; and the business list has
\* only names of type none.
C21_PersonalNamesRedacted ==
  (last.op = "UpdateConfigCmd" /\ last.out.prompt.printed) =>
    /\ \A i \in 1..Len(last.out.anonymized) :
         (/\ last.out.anonymized[i].IsPersonal
          /\ last.out.anonymized[i].Original
               \notin {R_OWNER_NAME, R_TRANSFER_PARTNER, R_ACCOUNT_NUMBER}) =>
           last.out.anonymized[i].Original
             \notin PromptNames(last.out.prompt.data)
    /\ \A i \in 1..Len(last.out.anonymized) :
         last.out.anonymized[i].IsPersonal =>
           Placeholder(last.out.anonymized[i].DetectionType)
             \in Elements(PromptListOf(last.out.prompt.data,
                                       last.out.anonymized[i].DetectionType))
    /\ \A t \in PersonalTypes :
         Elements(PromptListOf(last.out.prompt.data, t)) \subseteq {Placeholder(t)}
    /\ BusinessesAreNone(last.out.anonymized, last.out.prompt.data)

\* A prompt for a transfer partner, the owner and an account number, with
\* businesses beside them
C21_Witness ==
  /\ last.op = "UpdateConfigCmd"
  /\ last.out.prompt.printed
  /\ \E i, j, k \in 1..Len(last.out.anonymized) :
       /\ last.out.anonymized[i].Original = N_Kiss
       /\ last.out.anonymized[i].DetectionType = "transfer_partner"
       /\ last.out.anonymized[j].Original = N_VIGHOnly
       /\ last.out.anonymized[j].DetectionType = "owner_name"
       /\ last.out.anonymized[k].DetectionType = "account_number"
  /\ last.out.prompt.data.TransferPartners = <<R_TRANSFER_PARTNER>>
  /\ last.out.prompt.data.Businesses /= <<>>
  /\ N_Kiss \notin PromptNames(last.out.prompt.data)

\* C22: a name that is empty or has only white space is classified none,
\* not personal, and returned as it is, whatever the type label and the
\* owner name.
C22_BlankUnchanged ==
  (last.op = "Anonymize" /\ TrimSpace(last.in.merchantName) = <<>>) =>
    last.out = AnonymizationResult(last.in.merchantName, last.in.merchantName,
                                   FALSE, "none")

\* A name of white space, on a transfer, with the same white space as
\* owner name
C22_Witness ==
  /\ last.op = "Anonymize"
  /\ last.in.merchantName = N_blank
  /\ OwnerSupplied(last.in.cfg)
  /\ last.in.cfg.OwnerName = N_blank
  /\ HasTransferPhrase(last.in.transactionType)
  /\ last.out.DetectionType = "none"
  /\ last.out.Anonymized = N_blank

=============================================================================
